---- MODULE Spec2Model ----
(***************************************************************************)
(* A model of the career-insights service core: the generative content     *)
(* client (src/vertexclient/geminiClient.js), the overview service         *)
(* (src/services/overviewService.js) with its keyword derivation and its   *)
(* fan-out of warehouse queries, and the service operations behind the     *)
(* routes insights, synthesis and prompt (src/routes/insightsRoutes.js).   *)
(*                                                                         *)
(* JavaScript strings are TLA+ strings; a character is a string of length  *)
(* one.  A JavaScript value whose type matters (undefined, null, a number, *)
(* a string) is a record [k, s]: k is the type and s the literal.          *)
(***************************************************************************)
EXTENDS Integers, Sequences, FiniteSets, TLC

VARIABLES
  \* GeminiClient.generateContent, one invocation
  GEN_MODEL,    \* the module constant GEN_MODEL (environment or default)
  gpc,          \* "idle" | "awaiting" | "returned" | "thrown"
  gOptions,     \* the options argument
  gCands,       \* const candidates
  gIdx,         \* position of the for-of loop in candidates
  gLastErr,     \* let lastErr
  gAttempts,    \* history: the provider calls issued, with their outcome
  gOutcome,     \* the value returned or the error thrown
  \* GeminiClient.getAccessToken, the token cache and its callers
  accessToken,  \* this.accessToken
  tokenExpiry,  \* this.tokenExpiry
  now,          \* Date.now()
  ticks,        \* history: how often the clock advanced
  tpc,          \* per caller: "idle" | "fetching" | "returned" | "thrown"
  tCall,        \* per caller, history: what the call saw and did
  tHist,        \* history: last successful fetch, serial of fetches
  \* GeminiClient.parseResponse as a pure function
  pIn, pOut,
  \* OverviewService.getOverview, keyword derivation
  kReq, kOut,
  \* one request served by a route and its service operation
  svcOp,        \* "none" | "overview" | "synthesis" | "insights" | "prompt"
                \* | "roadmap" | "cards" | "status"
  svcReq,       \* the request
  svcPc,        \* "idle" | "queries" | "trends" | "model" | "count" | "rows"
                \* | "bigquery" | "newsapi" | "vertexai" | "done"
  svcLocals,    \* the locals of the operation: prompt, options, trends, ai
  oQueries,     \* getOverview: the array handed to Promise.all
  warehouse,    \* the rows the warehouse holds for each of these queries
  svcCalls,     \* history: the external calls issued, in order
  svcPrompts,   \* history: the prompts built, in order
  svcOutcome,   \* what the service operation returned or raised
  svcResp,      \* what the route answered
  \* the shaping helpers of OverviewService as pure functions
  hIn, hOut

genVars == <<GEN_MODEL, gpc, gOptions, gCands, gIdx, gLastErr, gAttempts, gOutcome>>
tokVars == <<accessToken, tokenExpiry, now, ticks, tpc, tCall, tHist>>
parseVars == <<pIn, pOut>>
kwVars == <<kReq, kOut>>
svcVars ==
  <<svcOp, svcReq, svcPc, svcLocals, oQueries, warehouse, svcCalls, svcPrompts,
    svcOutcome, svcResp>>
helperVars == <<hIn, hOut>>
vars == <<genVars, tokVars, parseVars, kwVars, svcVars, helperVars>>

----------------------------------------------------------------------------
(* JavaScript values *)

Undef == [k |-> "undef", s |-> ""]
Null == [k |-> "null", s |-> ""]
EmptyArr == [k |-> "arr", s |-> ""]
Num(lit) == [k |-> "num", s |-> lit]
Str(lit) == [k |-> "str", s |-> lit]

\* ToBoolean: undefined, null, false, 0 and "" are falsy, arrays, objects and
\* Dates truthy
Truthy(v) ==
  \/ v.k = "num" /\ v.s # "0"
  \/ v.k = "str" /\ v.s # ""
  \/ v.k = "bool" /\ v.s = "true"
  \/ v.k \in {"arr", "obj", "date"}

\* a || b
OrElse(a, b) == IF Truthy(a) THEN a ELSE b

\* a ?? b
Coalesce(a, b) == IF a.k \in {"undef", "null"} THEN b ELSE a

----------------------------------------------------------------------------
(* Strings *)

CharAt(s, i) == SubSeq(s, i, i)

Digits == {"0", "1", "2", "3", "4", "5", "6", "7", "8", "9"}

\* String.prototype.trim: " " and "\n" are the white space of the model
WhiteSpace == {" ", "\n"}

RECURSIVE TrimStart(_)
TrimStart(s) ==
  IF Len(s) > 0 /\ CharAt(s, 1) \in WhiteSpace
  THEN TrimStart(SubSeq(s, 2, Len(s)))
  ELSE s

RECURSIVE TrimEnd(_)
TrimEnd(s) ==
  IF Len(s) > 0 /\ CharAt(s, Len(s)) \in WhiteSpace
  THEN TrimEnd(SubSeq(s, 1, Len(s) - 1))
  ELSE s

\* mutant: only leading white space is removed
Trim_StartOnly(s) == TrimStart(s)

Trim(s) == TrimEnd(TrimStart(s))

\* Array.prototype.includes on a list of strings
Includes(list, x) == \E i \in 1..Len(list) : list[i] = x

\* the array indices, in ascending order
Indices(n) == [i \in 1..n |-> i]

\* Array.from(new Set(list)): first occurrences, in order
SetOrder(list) ==
  LET firsts == SelectSeq(Indices(Len(list)), LAMBDA i : \A j \in 1..(i - 1) : list[j] # list[i])
  IN  [k \in 1..Len(firsts) |-> list[firsts[k]]]

\* Array.prototype.join
RECURSIVE Join(_, _)
Join(list, sep) ==
  IF Len(list) = 0 THEN ""
  ELSE IF Len(list) = 1 THEN list[1]
  ELSE list[1] \o sep \o Join(Tail(list), sep)

----------------------------------------------------------------------------
(* GeminiClient.getModelCandidates *)

Fallback1 == "gemini-2.5-flash"
Fallback2 == "gemini-1.5-flash-002"
Fallback3 == "gemini-1.5-flash"

\* /-\d{3}$/.test(base)
HasVersionSuffix(base) ==
  /\ Len(base) >= 4
  /\ CharAt(base, Len(base) - 3) = "-"
  /\ \A i \in (Len(base) - 2)..Len(base) : CharAt(base, i) \in Digits

PushIfMissing(list, name) ==
  IF Includes(list, name) THEN list ELSE Append(list, name)

\* mutant: the "-002" variant is appended whether or not base is versioned
getModelCandidates_AlwaysVariant(base) ==
  LET l1 == IF base # "" THEN <<base>> ELSE <<>>
      l2 == IF base # "" THEN Append(l1, base \o "-002") ELSE l1
      l3 == PushIfMissing(l2, Fallback1)
      l4 == PushIfMissing(l3, Fallback2)
      l5 == PushIfMissing(l4, Fallback3)
  IN  SetOrder(l5)

getModelCandidates(base) ==
  LET l1 == IF base # "" THEN <<base>> ELSE <<>>
      l2 == IF base # "" /\ ~HasVersionSuffix(base)
            THEN Append(l1, base \o "-002") ELSE l1
      l3 == PushIfMissing(l2, Fallback1)
      l4 == PushIfMissing(l3, Fallback2)
      l5 == PushIfMissing(l4, Fallback3)
  IN  SetOrder(l5)

----------------------------------------------------------------------------
(* Provider errors and GeminiClient.handleError *)

\* An Error object: code, response (hasResp), response.status,
\* response.data.error.message (dataMsg) and message.
MkError(code, hasResp, status, dataMsg, message) ==
  [k |-> "err", code |-> code, hasResp |-> hasResp, status |-> status,
   dataMsg |-> dataMsg, message |-> message]

\* new Error(message)
NewError(message) == MkError(Undef, FALSE, Undef, Undef, message)

\* the value of a variable that holds no error (let lastErr;)
NoError == [k |-> "undef", code |-> Undef, hasResp |-> FALSE, status |-> Undef,
            dataMsg |-> Undef, message |-> ""]

\* `${v}` in a template literal
ToText(v) ==
  IF v.k = "undef" THEN "undefined"
  ELSE IF v.k = "null" THEN "null"
  ELSE v.s

MsgAuth == "Authentication failed. Check your Google Cloud credentials."
MsgPermission == "Permission denied. Check your Google Cloud project permissions."
MsgRateLimit == "Rate limit exceeded. Please try again later."
MsgNetwork == "Network error. Check your internet connection."
MsgTimeout == "Request timeout. The AI service took too long to respond."
MsgApiPrefix == "Vertex AI API error ("

\* mutant: the 429 branch is missing
handleError_NoRateLimit(error) ==
  IF error.hasResp
  THEN LET status == error.status
           message == OrElse(error.dataMsg, Str(error.message))
       IN  IF status = Num("401") THEN NewError(MsgAuth)
           ELSE IF status = Num("403") THEN NewError(MsgPermission)
           ELSE NewError(MsgApiPrefix \o ToText(status) \o "): " \o ToText(message))
  ELSE IF error.code = Str("ENOTFOUND") THEN NewError(MsgNetwork)
  ELSE IF error.code = Str("ECONNABORTED") THEN NewError(MsgTimeout)
  ELSE error

handleError(error) ==
  IF error.hasResp
  THEN LET status == error.status
           message == OrElse(error.dataMsg, Str(error.message))
       IN  IF status = Num("401") THEN NewError(MsgAuth)
           ELSE IF status = Num("403") THEN NewError(MsgPermission)
           ELSE IF status = Num("429") THEN NewError(MsgRateLimit)
           ELSE NewError(MsgApiPrefix \o ToText(status) \o "): " \o ToText(message))
  ELSE IF error.code = Str("ENOTFOUND") THEN NewError(MsgNetwork)
  ELSE IF error.code = Str("ECONNABORTED") THEN NewError(MsgTimeout)
  ELSE error

----------------------------------------------------------------------------
(* Provider responses and GeminiClient.parseResponse *)

\* responseData: undefined, null or { candidates? }; a candidate is null or
\* { content?: { parts? }, finishReason?, safetyRatings? }; a part is null
\* or { text? }.
AbsentParts == [k |-> "absent", items |-> <<>>]
PartsOf(items) == [k |-> "arr", items |-> items]
AbsentContent == [k |-> "absent", parts |-> AbsentParts]
ContentOf(parts) == [k |-> "obj", parts |-> parts]
NullPart == [k |-> "null", text |-> Undef]
PartOf(text) == [k |-> "obj", text |-> text]
NullCand == [k |-> "null", content |-> AbsentContent, finishReason |-> Undef,
             safetyRatings |-> Undef]
CandOf(content, finishReason, safetyRatings) ==
  [k |-> "obj", content |-> content, finishReason |-> finishReason,
   safetyRatings |-> safetyRatings]
AbsentCands == [k |-> "absent", items |-> <<>>]
CandsOf(items) == [k |-> "arr", items |-> items]
UndefResp == [k |-> "undef", cands |-> AbsentCands]
NullResp == [k |-> "null", cands |-> AbsentCands]
RespOf(cands) == [k |-> "obj", cands |-> cands]

\* JSON.stringify: properties whose value is undefined are left out
JsonChar(c) ==
  IF c = "\n" THEN "\\n" ELSE IF c = "\"" THEN "\\\"" ELSE c

RECURSIVE JsonEscape(_)
JsonEscape(s) ==
  IF Len(s) = 0 THEN "" ELSE JsonChar(CharAt(s, 1)) \o JsonEscape(SubSeq(s, 2, Len(s)))

JsonValue(v) ==
  IF v.k = "null" THEN "null"
  ELSE IF v.k = "str" THEN "\"" \o JsonEscape(v.s) \o "\""
  ELSE IF v.k = "arr" THEN "[" \o v.s \o "]"
  ELSE v.s

\* the members of an object that are present, joined
JsonObject(members) ==
  "{" \o Join(SelectSeq(members, LAMBDA m : m # ""), ",") \o "}"

JsonMember(name, present, text) ==
  IF present THEN "\"" \o name \o "\":" \o text ELSE ""

JsonPart(p) ==
  IF p.k = "null" THEN "null"
  ELSE JsonObject(<<JsonMember("text", p.text.k # "undef", JsonValue(p.text))>>)

JsonArray(items) == "[" \o Join(items, ",") \o "]"

JsonContent(c) ==
  JsonObject(<<JsonMember("parts", c.parts.k = "arr",
      JsonArray([i \in 1..Len(c.parts.items) |-> JsonPart(c.parts.items[i])]))>>)

JsonCand(c) ==
  IF c.k = "null" THEN "null"
  ELSE JsonObject(<<
         JsonMember("content", c.content.k = "obj", JsonContent(c.content)),
         JsonMember("finishReason", c.finishReason.k # "undef", JsonValue(c.finishReason)),
         JsonMember("safetyRatings", c.safetyRatings.k # "undef", JsonValue(c.safetyRatings))>>)

JsonStringify(rd) ==
  IF rd.k = "undef" THEN Undef
  ELSE IF rd.k = "null" THEN Str("null")
  ELSE Str(JsonObject(<<JsonMember("candidates", rd.cands.k = "arr",
         JsonArray([i \in 1..Len(rd.cands.items) |-> JsonCand(rd.cands.items[i])]))>>))

MkResult(text, finishReason, safetyRatings, raw) ==
  [text |-> text, finishReason |-> finishReason, safetyRatings |-> safetyRatings,
   raw |-> raw]

MsgParseError == "Error parsing AI response"

\* part => part.text || ''
PartText(p) == OrElse(p.text, Str("")).s

parseResponse(responseData) ==
  LET fallback == MkResult(JsonStringify(responseData), Str("UNKNOWN"), EmptyArr,
                           responseData)
      caught == MkResult(Str(MsgParseError), Str("ERROR"), EmptyArr, responseData)
  IN  IF responseData.k = "obj" /\ responseData.cands.k = "arr"
         /\ Len(responseData.cands.items) > 0
      THEN LET candidate == responseData.cands.items[1]
           IN  IF candidate.k = "obj" /\ candidate.content.k = "obj"
                  /\ candidate.content.parts.k = "arr"
                  /\ Len(candidate.content.parts.items) > 0
               THEN LET parts == candidate.content.parts.items
                    IN  \* reading .text of a null part throws a TypeError
                        IF \E i \in 1..Len(parts) : parts[i].k = "null"
                        THEN caught
                        ELSE MkResult(
                               Str(Trim(Join([i \in 1..Len(parts) |-> PartText(parts[i])], "\n"))),
                               candidate.finishReason, candidate.safetyRatings,
                               responseData)
               ELSE fallback
      ELSE fallback

----------------------------------------------------------------------------
(* GeminiClient.generateContent *)

DefaultTemperature == Num("0.7")
DefaultTopP == Num("0.8")
DefaultTopK == Num("40")
DefaultMaxOutputTokens == Num("1024")

SafetySettings ==
  <<[category |-> "HARM_CATEGORY_HARASSMENT", threshold |-> "BLOCK_MEDIUM_AND_ABOVE"],
    [category |-> "HARM_CATEGORY_HATE_SPEECH", threshold |-> "BLOCK_MEDIUM_AND_ABOVE"]>>

\* the options argument: an absent property reads as undefined
MkOptions(temperature, topP, topK, maxTokens, maxOutputTokens) ==
  [temperature |-> temperature, topP |-> topP, topK |-> topK,
   maxTokens |-> maxTokens, maxOutputTokens |-> maxOutputTokens]

\* mutant: || in place of ??, so that a given 0 falls back to the default
BuildRequest_OrDefaults(options) ==
  [temperature |-> OrElse(options.temperature, DefaultTemperature),
   topP |-> OrElse(options.topP, DefaultTopP),
   topK |-> OrElse(options.topK, DefaultTopK),
   maxOutputTokens |-> OrElse(options.maxTokens, DefaultMaxOutputTokens),
   safetySettings |-> SafetySettings]

\* const request = { contents, generationConfig, safetySettings }
BuildRequest(options) ==
  [temperature |-> Coalesce(options.temperature, DefaultTemperature),
   topP |-> Coalesce(options.topP, DefaultTopP),
   topK |-> Coalesce(options.topK, DefaultTopK),
   maxOutputTokens |-> Coalesce(options.maxTokens, DefaultMaxOutputTokens),
   safetySettings |-> SafetySettings]

\* const status = error?.code || error?.response?.status; status === 404
IsNotFound(error) ==
  OrElse(error.code, IF error.hasResp THEN error.status ELSE Undef) = Num("404")

\* mutant: the last provider error is thrown as it is
ExhaustedError_Unclassified(lastErr) ==
  IF lastErr.k = "err" THEN lastErr ELSE NewError("Model not found")

\* after the loop: throw this.handleError(lastErr || new Error('Model not found'))
ExhaustedError(lastErr) ==
  handleError(IF lastErr.k = "err" THEN lastErr ELSE NewError("Model not found"))

NoResult == MkResult(Undef, Undef, Undef, UndefResp)
NoOutcome == [k |-> "none", value |-> NoResult, error |-> NoError]
Returned(value) == [k |-> "value", value |-> value, error |-> NoError]
Thrown(error) == [k |-> "error", value |-> NoResult, error |-> error]

\* one provider call: the model asked, the request sent, and how it ended
Attempt(modelName, request) ==
  [model |-> modelName, request |-> request, out |-> "pending",
   error |-> NoError, response |-> UndefResp]

\* the inputs of the model: configured model names, options, provider answers
GenModels ==
  {"gemini-2.5-flash", "gemini-1.5-flash", "gemini-1.5-flash-002",
   "foo", "foo-001", "foo-02", "m-0022"}

OptionsSet ==
  {MkOptions(t, p, k, m, o) :
     t \in {Undef, Num("0"), Num("0.2")}, p \in {Undef, Num("0")},
     k \in {Undef, Num("0")}, m \in {Undef, Null, Num("0"), Num("256")},
     o \in {Undef, Num("512")}}

ProviderErrors ==
  {MkError(Num("404"), FALSE, Undef, Undef, "not found"),
   MkError(Undef, TRUE, Num("404"), Undef, "Request failed with status code 404"),
   MkError(Str("ERR_BAD_REQUEST"), TRUE, Num("404"), Str("Model not found"),
           "Request failed with status code 404"),
   MkError(Undef, TRUE, Num("401"), Undef, "Request failed with status code 401"),
   MkError(Undef, TRUE, Num("403"), Str("forbidden"), "Request failed with status code 403"),
   MkError(Undef, TRUE, Num("429"), Str("quota"), "Request failed with status code 429"),
   MkError(Undef, TRUE, Num("500"), Undef, "Request failed with status code 500"),
   MkError(Str("ECONNABORTED"), TRUE, Num("503"), Str("unavailable"), "aborted"),
   MkError(Str("ENOTFOUND"), FALSE, Undef, Undef, "getaddrinfo ENOTFOUND"),
   MkError(Str("ECONNABORTED"), FALSE, Undef, Undef, "timeout of 1000ms exceeded"),
   MkError(Num("500"), FALSE, Undef, Undef, "internal"),
   MkError(Undef, FALSE, Undef, Undef, "boom")}

GenResponses ==
  {UndefResp,
   RespOf(CandsOf(<<>>)),
   RespOf(CandsOf(<<CandOf(ContentOf(PartsOf(<<PartOf(Str(" hi ")), PartOf(Str("there"))>>)),
                           Str("STOP"), EmptyArr)>>)),
   RespOf(CandsOf(<<CandOf(ContentOf(PartsOf(<<NullPart>>)), Str("STOP"), Undef)>>))}

GenIdle ==
  /\ gpc = "idle"
  /\ gOptions = MkOptions(Undef, Undef, Undef, Undef, Undef)
  /\ gCands = <<>>
  /\ gIdx = 0
  /\ gLastErr = NoError
  /\ gAttempts = <<>>
  /\ gOutcome = NoOutcome

GenInit == GEN_MODEL \in GenModels /\ GenIdle

\* generateContent(prompt, options) up to its first await: the candidate list,
\* the first request and the first provider call
GenStart(options) ==
  /\ gpc = "idle"
  /\ gOptions' = options
  /\ gCands' = getModelCandidates(GEN_MODEL)
  /\ gLastErr' = NoError
  /\ IF Len(gCands') > 0
     THEN /\ gIdx' = 1
          /\ gAttempts' = <<Attempt(gCands'[1], BuildRequest(options))>>
          /\ gpc' = "awaiting"
          /\ gOutcome' = NoOutcome
     ELSE /\ gIdx' = 0
          /\ gAttempts' = <<>>
          /\ gpc' = "thrown"
          /\ gOutcome' = Thrown(ExhaustedError(gLastErr'))
  /\ UNCHANGED <<GEN_MODEL, tokVars, parseVars, kwVars, svcVars, helperVars>>

\* await model.generateContent(request) resolves: return parseResponse(...)
ProviderResolve(response) ==
  /\ gpc = "awaiting"
  /\ gAttempts' = [gAttempts EXCEPT ![gIdx].out = "ok", ![gIdx].response = response]
  /\ gOutcome' = Returned(parseResponse(response))
  /\ gpc' = "returned"
  /\ UNCHANGED <<GEN_MODEL, gOptions, gCands, gIdx, gLastErr>>
  /\ UNCHANGED <<tokVars, parseVars, kwVars, svcVars, helperVars>>

\* await model.generateContent(request) rejects: the catch block, and with
\* it the next iteration of the loop or the throw after the loop
ProviderReject(error) ==
  /\ gpc = "awaiting"
  /\ LET failed == [gAttempts EXCEPT ![gIdx].out = "error", ![gIdx].error = error]
     IN  IF IsNotFound(error)
         THEN /\ gLastErr' = error
              /\ IF gIdx < Len(gCands)
                 THEN /\ gIdx' = gIdx + 1
                      /\ gAttempts' = Append(failed,
                           Attempt(gCands[gIdx + 1], BuildRequest(gOptions)))
                      /\ UNCHANGED <<gpc, gOutcome>>
                 ELSE /\ gAttempts' = failed
                      /\ gOutcome' = Thrown(ExhaustedError(gLastErr'))
                      /\ gpc' = "thrown"
                      /\ UNCHANGED gIdx
         ELSE /\ gAttempts' = failed
              /\ gOutcome' = Thrown(handleError(error))
              /\ gpc' = "thrown"
              /\ UNCHANGED <<gIdx, gLastErr>>
  /\ UNCHANGED <<GEN_MODEL, gOptions, gCands>>
  /\ UNCHANGED <<tokVars, parseVars, kwVars, svcVars, helperVars>>

Next ==
  \/ \E options \in OptionsSet : GenStart(options)
  \/ \E response \in GenResponses : ProviderResolve(response)
  \/ \E error \in ProviderErrors : ProviderReject(error)

----------------------------------------------------------------------------
(* GeminiClient.getAccessToken and the token cache *)

\* 55 * 60 * 1000 milliseconds
TokenTtl == 55 * 60 * 1000

NCallers == 2
MaxTicks == 4

Callers == 1..NCallers

\* the steps by which the clock of the model advances, in milliseconds
ClockSteps == {1, 55 * 60 * 1000 - 1}

\* the tokens the credential provider hands out
Tokens == {"ya29.a", "ya29.b"}

\* what the credential provider's rejection is
FetchFailures == {"SyntaxError", "ENOENT", "other"}

NoExpiry == [k |-> "null", n |-> 0]
ExpiryAt(t) == [k |-> "num", n |-> t]

MsgBadCredentials == "Credential file is not valid JSON. Ensure GOOGLE_APPLICATION_CREDENTIALS points to a service account key that starts with { and contains client_email & private_key."
MsgNoCredentials == "Credentials file not found at path in GOOGLE_APPLICATION_CREDENTIALS"
MsgProvider == "invalid_grant"

\* mutant: a token is still served at the instant of its expiry
TokenValid_Inclusive ==
  /\ Truthy(accessToken)
  /\ tokenExpiry.k = "num" /\ tokenExpiry.n # 0
  /\ now <= tokenExpiry.n

\* this.accessToken && this.tokenExpiry && Date.now() < this.tokenExpiry
TokenValid ==
  /\ Truthy(accessToken)
  /\ tokenExpiry.k = "num" /\ tokenExpiry.n # 0
  /\ now < tokenExpiry.n

NoCall ==
  [startAt |-> 0, sawToken |-> Null, sawExpiry |-> NoExpiry, lastOkAt |-> -1,
   lastOkToken |-> Null, afterFailure |-> FALSE, clientCalls |-> 0,
   tokenCalls |-> 0, result |-> Null, error |-> ""]

\* a call begins: what it sees of the cache and of the history
NewCall ==
  [NoCall EXCEPT !.startAt = now, !.sawToken = accessToken,
                 !.sawExpiry = tokenExpiry, !.lastOkAt = tHist.lastOkAt,
                 !.lastOkToken = tHist.lastOkToken,
                 !.afterFailure = tHist.lastCallFailed]

TokIdle ==
  /\ accessToken = Null
  /\ tokenExpiry = NoExpiry
  /\ now = 0
  /\ ticks = 0
  /\ tpc = [p \in Callers |-> "idle"]
  /\ tCall = [p \in Callers |-> NoCall]
  /\ tHist = [lastOkAt |-> -1, lastOkToken |-> Null, lastCallFailed |-> FALSE]

\* no call is between its first and its last step
NoneInFlight == \A q \in Callers : tpc[q] \notin {"client", "token"}

\* getAccessToken() with a valid cached token: return this.accessToken
TokCachedReturn(p) ==
  /\ tpc[p] \in {"idle", "returned", "thrown"}
  /\ TokenValid
  /\ tpc' = [tpc EXCEPT ![p] = "returned"]
  /\ tCall' = [tCall EXCEPT ![p] = [NewCall EXCEPT !.result = accessToken]]
  /\ tHist' = [tHist EXCEPT !.lastCallFailed = FALSE]
  /\ UNCHANGED <<accessToken, tokenExpiry, now, ticks>>
  /\ UNCHANGED <<genVars, parseVars, kwVars, svcVars, helperVars>>

\* getAccessToken() without one: up to await this.auth.getClient()
TokFetchStart(p) ==
  /\ tpc[p] \in {"idle", "returned", "thrown"}
  /\ ~TokenValid
  /\ tpc' = [tpc EXCEPT ![p] = "client"]
  /\ tCall' = [tCall EXCEPT ![p] = [NewCall EXCEPT !.clientCalls = 1]]
  /\ UNCHANGED <<accessToken, tokenExpiry, now, ticks, tHist>>
  /\ UNCHANGED <<genVars, parseVars, kwVars, svcVars, helperVars>>

\* getClient() resolved: up to await client.getAccessToken()
TokClientOk(p) ==
  /\ tpc[p] = "client"
  /\ tpc' = [tpc EXCEPT ![p] = "token"]
  /\ tCall' = [tCall EXCEPT ![p].tokenCalls = @ + 1]
  /\ UNCHANGED <<accessToken, tokenExpiry, now, ticks, tHist>>
  /\ UNCHANGED <<genVars, parseVars, kwVars, svcVars, helperVars>>

\* mutant: the expiry is counted from the instant the call began
TokFetchOk_ExpiryFromStart(p, token) ==
  /\ tpc[p] = "token"
  /\ accessToken' = Str(token)
  /\ tokenExpiry' = ExpiryAt(tCall[p].startAt + TokenTtl)
  /\ tpc' = [tpc EXCEPT ![p] = "returned"]
  /\ tCall' = [tCall EXCEPT ![p].result = accessToken']
  /\ tHist' = [lastOkAt |-> now, lastOkToken |-> Str(token), lastCallFailed |-> FALSE]
  /\ UNCHANGED <<now, ticks>>
  /\ UNCHANGED <<genVars, parseVars, kwVars, svcVars, helperVars>>

\* client.getAccessToken() resolved: store token and expiry, return
TokFetchOk(p, token) ==
  /\ tpc[p] = "token"
  /\ accessToken' = Str(token)
  /\ tokenExpiry' = ExpiryAt(now + TokenTtl)
  /\ tpc' = [tpc EXCEPT ![p] = "returned"]
  /\ tCall' = [tCall EXCEPT ![p].result = accessToken']
  /\ tHist' = [lastOkAt |-> now, lastOkToken |-> Str(token), lastCallFailed |-> FALSE]
  /\ UNCHANGED <<now, ticks>>
  /\ UNCHANGED <<genVars, parseVars, kwVars, svcVars, helperVars>>

\* mutant: a failed fetch drops the cached token
TokFetchFail_ClearsCache(p, failure) ==
  /\ tpc[p] \in {"client", "token"}
  /\ tpc' = [tpc EXCEPT ![p] = "thrown"]
  /\ tCall' = [tCall EXCEPT ![p].error = MsgProvider]
  /\ tHist' = [tHist EXCEPT !.lastCallFailed = TRUE]
  /\ accessToken' = Null
  /\ tokenExpiry' = NoExpiry
  /\ UNCHANGED <<now, ticks>>
  /\ UNCHANGED <<genVars, parseVars, kwVars, svcVars, helperVars>>

\* either await rejected: the catch block
TokFetchFail(p, failure) ==
  /\ tpc[p] \in {"client", "token"}
  /\ tpc' = [tpc EXCEPT ![p] = "thrown"]
  /\ tCall' = [tCall EXCEPT ![p].error =
                 IF failure = "SyntaxError" THEN MsgBadCredentials
                 ELSE IF failure = "ENOENT" THEN MsgNoCredentials
                 ELSE MsgProvider]
  /\ tHist' = [tHist EXCEPT !.lastCallFailed = TRUE]
  /\ UNCHANGED <<accessToken, tokenExpiry, now, ticks>>
  /\ UNCHANGED <<genVars, parseVars, kwVars, svcVars, helperVars>>

\* time passes
Tick(d) ==
  /\ ticks < MaxTicks
  /\ now' = now + d
  /\ ticks' = ticks + 1
  /\ UNCHANGED <<accessToken, tokenExpiry, tpc, tCall, tHist>>
  /\ UNCHANGED <<genVars, parseVars, kwVars, svcVars, helperVars>>

\* calls that do not overlap: a call begins only when none is in flight
\* the caller that makes them
SeqCallers == {1}

NextToken ==
  \/ \E p \in SeqCallers : NoneInFlight /\ TokCachedReturn(p)
  \/ \E p \in SeqCallers : NoneInFlight /\ TokFetchStart(p)
  \/ \E p \in SeqCallers : TokClientOk(p)
  \/ \E p \in SeqCallers, token \in Tokens : TokFetchOk(p, token)
  \/ \E p \in SeqCallers, failure \in FetchFailures : TokFetchFail(p, failure)
  \/ \E d \in ClockSteps : Tick(d)

\* calls that overlap: every caller may begin a call while others are
\* between their awaits, and the awaits settle in any order
NextTokenConcurrent ==
  \/ \E p \in Callers : TokCachedReturn(p)
  \/ \E p \in Callers : TokFetchStart(p)
  \/ \E p \in Callers : TokClientOk(p)
  \/ \E p \in Callers, token \in Tokens : TokFetchOk(p, token)
  \/ \E p \in Callers, failure \in FetchFailures : TokFetchFail(p, failure)
  \/ \E d \in ClockSteps : Tick(d)

----------------------------------------------------------------------------
(* GeminiClient.parseResponse on its own *)

MaxParts == 2

\* the parts, candidates and responses the provider may answer with
PartChoices ==
  {NullPart, PartOf(Undef), PartOf(Str("")), PartOf(Str("a")), PartOf(Str(" b\n"))}

PartLists == UNION {[1..n -> PartChoices] : n \in 0..MaxParts}

ContentChoices ==
  {AbsentContent, ContentOf(AbsentParts)} \cup {ContentOf(PartsOf(ps)) : ps \in PartLists}

CandChoices ==
  {NullCand} \cup
  {CandOf(c, f, r) : c \in ContentChoices, f \in {Undef, Str("STOP")},
                     r \in {Undef, [k |-> "arr", s |-> "{\"category\":\"HARM_CATEGORY_HARASSMENT\"}"]}}

ParseInputs ==
  {UndefResp, NullResp, RespOf(AbsentCands), RespOf(CandsOf(<<>>))}
  \cup {RespOf(CandsOf(<<c>>)) : c \in CandChoices}
  \cup {RespOf(CandsOf(<<c, NullCand>>)) : c \in CandChoices}

ParseIdle == pIn = UndefResp /\ pOut = NoOutcome

\* parseResponse(responseData)
ParseApply ==
  /\ pOut = NoOutcome
  /\ pOut' = Returned(parseResponse(pIn))
  /\ UNCHANGED <<pIn, genVars, tokVars, kwVars, svcVars, helperVars>>

----------------------------------------------------------------------------
(* OverviewService.getOverview: the keyword sets *)

UpperCase == "ABCDEFGHIJKLMNOPQRSTUVWXYZ"
LowerCase == "abcdefghijklmnopqrstuvwxyz"

LowerChar(c) ==
  IF \E i \in 1..Len(UpperCase) : CharAt(UpperCase, i) = c
  THEN CharAt(LowerCase, CHOOSE i \in 1..Len(UpperCase) : CharAt(UpperCase, i) = c)
  ELSE c

\* String.prototype.toLowerCase, character by character (by halves)
RECURSIVE toLowerCase(_)
toLowerCase(s) ==
  IF Len(s) = 0 THEN ""
  ELSE IF Len(s) = 1 THEN LowerChar(s)
  ELSE toLowerCase(SubSeq(s, 1, Len(s) \div 2))
       \o toLowerCase(SubSeq(s, Len(s) \div 2 + 1, Len(s)))

\* String.prototype.split on the characters of seps: the pieces between them
Split(s, seps) ==
  LET at == SelectSeq(Indices(Len(s)), LAMBDA i : CharAt(s, i) \in seps)
      n == Len(at)
      cut(k) == IF k = 0 THEN 0 ELSE IF k = n + 1 THEN Len(s) + 1 ELSE at[k]
  IN  [k \in 1..(n + 1) |-> SubSeq(s, cut(k - 1) + 1, cut(k) - 1)]

\* .map(s => s.trim())
TrimAll(list) == [i \in 1..Len(list) |-> Trim(list[i])]

\* .map(k => k.toLowerCase())
LowerAll(list) == [i \in 1..Len(list) |-> toLowerCase(list[i])]

\* list.filter(Boolean) on strings
NonEmpty(list) == SelectSeq(list, LAMBDA x : x # "")

\* list.slice(0, n)
Slice(list, n) == SubSeq(list, 1, IF Len(list) < n THEN Len(list) ELSE n)

\* String.prototype.includes
StringIncludes(s, sub) ==
  \E i \in 1..(Len(s) - Len(sub) + 1) : SubSeq(s, i, i + Len(sub) - 1) = sub

CsvCap == 20
GeneralCap == 12
PolicyCap == 24
EmergingCap == 30

\* splitCsv(value)
splitCsv(value) ==
  IF value = "" THEN <<>>
  ELSE Slice(NonEmpty(TrimAll(Split(value, {","}))), CsvCap)

\* role.toLowerCase().split(/\s+/).filter(Boolean)
RoleTokens(role) == NonEmpty(Split(toLowerCase(role), WhiteSpace))

policyBase ==
  <<
    "policy", "regulation", "government", "law", "visa", "immigration", "work permit",
    "student visa", "h1b", "opt", "stem opt", "compliance", "licensing",
    "certification", "accreditation", "data privacy", "gdpr", "hipaa", "ferpa",
    "export control", "sanction", "tariff", "grant", "scholarship", "financial aid"
  >>

emergingDefaults ==
  <<
    "ai", "genai", "ml", "llm", "nlp", "cv", "agentic ai", "cloud", "serverless",
    "edge", "5g", "iot", "cybersecurity", "data engineering", "data pipelines",
    "realtime analytics", "vector databases", "blockchain", "web3", "defi",
    "smart contracts", "quantum", "quantum algorithms", "robotics", "autonomy",
    "drones", "healthtech", "digital health", "medtech", "bioinformatics", "fintech",
    "payments", "fraud detection", "algo trading", "edtech", "learning analytics",
    "assessment", "climate tech", "sustainability", "energy storage", "ev",
    "manufacturing", "industry 4.0", "digital twins", "gaming", "ar", "vr",
    "metaverse", "govtech", "civic tech", "public sector", "legaltech", "regtech",
    "compliance", "ecommerce", "marketplaces", "logistics", "media", "creator economy",
    "personalization", "hrtech", "talent analytics", "future of work", "agritech",
    "precision agriculture", "space", "satellite", "product management",
    "design systems", "ux research", "data science", "mle", "mloPs", "llmOps"
  >>

roleMap ==
  <<
    [match |-> <<"data scientist", "ml engineer", "ai engineer", "mle", "ds">>,
     keywords |-> <<"genai", "llm", "vector databases", "mloPs", "llmOps", "retrieval", "rag", "agents">>],
    [match |-> <<"software engineer", "backend", "fullstack", "sre", "devops">>,
     keywords |-> <<"cloud", "serverless", "edge", "observability", "platform engineering", "rust", "wasm">>],
    [match |-> <<"frontend", "ui", "ux", "designer">>,
     keywords |-> <<"design systems", "web performance", "accessibility", "wasm", "ar", "vr">>],
    [match |-> <<"product manager", "pm">>,
     keywords |-> <<"product analytics", "experimentation", "growth loops", "ai copilots">>],
    [match |-> <<"security", "infosec", "appsec">>,
     keywords |-> <<"zero trust", "ai security", "supply chain security", "sbom">>],
    [match |-> <<"health", "healthcare", "biotech">>,
     keywords |-> <<"healthtech", "digital health", "bioinformatics", "drug discovery ai">>],
    [match |-> <<"finance", "fintech", "quant">>,
     keywords |-> <<"fintech", "risk modeling", "fraud detection", "algo trading">>],
    [match |-> <<"education", "teacher", "professor", "edtech">>,
     keywords |-> <<"edtech", "adaptive learning", "learning analytics">>],
    [match |-> <<"climate", "sustainability", "energy">>,
     keywords |-> <<"climate tech", "grid optimization", "carbon accounting", "ev">>],
    [match |-> <<"manufacturing", "industrial">>,
     keywords |-> <<"industry 4.0", "digital twins", "predictive maintenance">>],
    [match |-> <<"gov", "public sector", "policy">>,
     keywords |-> <<"govtech", "civic tech", "regtech">>]
  >>

\* row.match.some(m => role.includes(m))
RowMatches(row, role) ==
  \E i \in 1..Len(row.match) : StringIncludes(role, row.match[i])

RECURSIVE MatchedKeywords(_, _)
MatchedKeywords(rows, role) ==
  IF Len(rows) = 0 THEN <<>>
  ELSE (IF RowMatches(rows[1], role) THEN rows[1].keywords ELSE <<>>)
       \o MatchedKeywords(Tail(rows), role)

deriveEmergingFromRole(roleRaw) ==
  SetOrder(MatchedKeywords(roleMap, toLowerCase(roleRaw)))

\* GET /overview: the query string as the prefs object
MkRequest(role, skills, interests, query, q, policy, emerging) ==
  [role |-> role, skills |-> skills, interests |-> interests, query |-> query,
   q |-> q, policy |-> policy, emerging |-> emerging]

RoutePrefs(req) ==
  [role |-> req.role, skills |-> req.skills, interests |-> req.interests,
   query |-> IF req.query # "" THEN req.query ELSE req.q,
   policy |-> req.policy, emerging |-> req.emerging]

\* const keywordsDerived
DerivedKeywords(prefs) ==
  Slice(SetOrder(splitCsv(prefs.skills) \o splitCsv(prefs.interests)
                 \o RoleTokens(Trim(prefs.role))), GeneralCap)

\* mutant: the derived terms are kept behind an override
GeneralKeywords_Merged(prefs) ==
  LET keywordsFromUserQuery == LowerAll(splitCsv(Trim(prefs.query)))
  IN  keywordsFromUserQuery \o DerivedKeywords(prefs)

\* const keywords
GeneralKeywords(prefs) ==
  LET keywordsFromUserQuery == LowerAll(splitCsv(Trim(prefs.query)))
  IN  IF Len(keywordsFromUserQuery) > 0 THEN keywordsFromUserQuery
      ELSE DerivedKeywords(prefs)

\* mutant: the override is chosen by the raw string, not by its tokens
PolicyKeywords_RawOverrideTest(prefs) ==
  LET policyFromUser == LowerAll(splitCsv(Trim(prefs.policy)))
  IN  Slice(SetOrder(
        IF Trim(prefs.policy) # "" THEN policyFromUser
        ELSE policyBase \o LowerAll(splitCsv(prefs.interests))
             \o RoleTokens(Trim(prefs.role))), PolicyCap)

\* const policyKeywords
PolicyKeywords(prefs) ==
  LET interestTokens == LowerAll(splitCsv(prefs.interests))
      roleTokens == RoleTokens(Trim(prefs.role))
      policyFromUser == LowerAll(splitCsv(Trim(prefs.policy)))
  IN  Slice(SetOrder(
        (IF Len(policyFromUser) > 0 THEN policyFromUser ELSE <<>>)
        \o (IF Len(policyFromUser) = 0 THEN policyBase ELSE <<>>)
        \o (IF Len(policyFromUser) = 0 THEN interestTokens ELSE <<>>)
        \o (IF Len(policyFromUser) = 0 THEN roleTokens ELSE <<>>)), PolicyCap)

\* const emergingKeywords
EmergingKeywords(prefs) ==
  LET emergingFromUser == LowerAll(splitCsv(Trim(prefs.emerging)))
      emergingFromRole == deriveEmergingFromRole(Trim(prefs.role))
      emergingCandidate == IF Len(emergingFromUser) > 0 THEN emergingFromUser
                           ELSE emergingDefaults \o emergingFromRole
  IN  Slice(SetOrder(emergingCandidate), EmergingCap)

NoRequest == MkRequest("", "", "", "", "", "", "")
NoKeywords ==
  [done |-> FALSE, keywords |-> <<>>, policyKeywords |-> <<>>, emergingKeywords |-> <<>>]

\* the query strings of GET /overview
RoleChoices == {"", "data scientist", "  Security  Lead ", "Teacher"}
SkillsChoices == {"", "python,ml", "Python, python ,,SQL"}
InterestsChoices == {"", "healthcare,cloud", " Visa "}
QueryChoices ==
  {"", "student visa,H1B,OPT", " , ", "Rust,,rust",
   "k1,k2,k3,k4,k5,k6,k7,k8,k9,k10,k11,k12,k13,k14,k15,k16,k17,k18,k19,k20,k21"}
QChoices == {"", "Go"}
PolicyChoices == {"", "GDPR, gdpr ,HIPAA", ","}
EmergingChoices == {"", "Quantum , edge", " ,, "}

Requests ==
  {MkRequest(r, s, i, query, q, pol, e) :
     r \in RoleChoices, s \in SkillsChoices, i \in InterestsChoices,
     query \in QueryChoices, q \in QChoices, pol \in PolicyChoices,
     e \in EmergingChoices}

KwIdle == kReq = NoRequest /\ kOut = NoKeywords

\* getOverview(prefs) up to the warehouse queries: the three keyword sets
OverviewKeywords ==
  /\ ~kOut.done
  /\ LET prefs == RoutePrefs(kReq)
     IN  kOut' = [done |-> TRUE,
                  keywords |-> GeneralKeywords(prefs),
                  policyKeywords |-> PolicyKeywords(prefs),
                  emergingKeywords |-> EmergingKeywords(prefs)]
  /\ UNCHANGED <<kReq, genVars, tokVars, parseVars, svcVars, helperVars>>

----------------------------------------------------------------------------
(* JavaScript numbers: n / 10^scale, or NaN *)

NaN == [nan |-> TRUE, n |-> 0, scale |-> 0]
JsNum(n, scale) == [nan |-> FALSE, n |-> n, scale |-> scale]

RECURSIVE Pow10(_)
Pow10(k) == IF k = 0 THEN 1 ELSE 10 * Pow10(k - 1)

DigitValue(c) == CHOOSE d \in 0..9 : CharAt("0123456789", d + 1) = c

RECURSIVE DigitsValue(_)
DigitsValue(s) ==
  IF Len(s) = 0 THEN 0
  ELSE 10 * DigitsValue(SubSeq(s, 1, Len(s) - 1)) + DigitValue(CharAt(s, Len(s)))

AllDigits(s) == \A i \in 1..Len(s) : CharAt(s, i) \in Digits

\* StringToNumber on white space, signs and decimal literals; every other
\* text of the model's requests is not a numeric literal and gives NaN
StringToNumber(s) ==
  LET t == Trim(s)
      signed == Len(t) > 0 /\ CharAt(t, 1) \in {"-", "+"}
      sign == IF Len(t) > 0 /\ CharAt(t, 1) = "-" THEN -1 ELSE 1
      u == IF signed THEN SubSeq(t, 2, Len(t)) ELSE t
      dots == SelectSeq(Indices(Len(u)), LAMBDA i : CharAt(u, i) = ".")
  IN  IF t = "" THEN JsNum(0, 0)
      ELSE IF Len(dots) = 0
      THEN IF u # "" /\ AllDigits(u) THEN JsNum(sign * DigitsValue(u), 0) ELSE NaN
      ELSE IF Len(dots) = 1
      THEN LET whole == SubSeq(u, 1, dots[1] - 1)
               frac == SubSeq(u, dots[1] + 1, Len(u))
           IN  IF AllDigits(whole) /\ AllDigits(frac) /\ whole \o frac # ""
               THEN JsNum(sign * DigitsValue(whole \o frac), Len(frac))
               ELSE NaN
      ELSE NaN

\* Number(v)
ToNumber(v) ==
  IF v.k = "undef" THEN NaN
  ELSE IF v.k = "null" THEN JsNum(0, 0)
  ELSE IF v.k \in {"num", "str"} THEN StringToNumber(v.s)
  ELSE NaN

\* Number(v) || dflt
NumberOr(v, dflt) ==
  LET x == ToNumber(v)
  IN  IF ~x.nan /\ x.n # 0 THEN x ELSE JsNum(dflt, 0)

\* Math.min(a, b)
MathMin(a, b) ==
  IF a.nan \/ b.nan THEN NaN
  ELSE IF a.n * Pow10(b.scale) <= b.n * Pow10(a.scale) THEN a ELSE b

\* String(n) for an integer n >= 0
RECURSIVE DecimalString(_)
DecimalString(n) ==
  IF n < 10 THEN CharAt("0123456789", n + 1)
  ELSE DecimalString(n \div 10) \o CharAt("0123456789", (n % 10) + 1)

----------------------------------------------------------------------------
(* OverviewService: shaping helpers *)

\* a Date: its time value as the whole seconds since the epoch and the
\* milliseconds past them, so that decades fit 32-bit integers
DateAt(sec, ms) == [k |-> "date", s |-> "", sec |-> sec, ms |-> ms]
InvalidDate == [k |-> "date", s |-> "Invalid Date", sec |-> 0, ms |-> 0]

\* a timestamp value of a row: a Date at ms milliseconds since the epoch
Timestamp(ms) == DateAt(ms \div 1000, ms % 1000)

\* the days from 1970-01-01 to the day d of month m of year y
DaysFromCivil(y, m, d) ==
  LET yy == IF m <= 2 THEN y - 1 ELSE y
      era == yy \div 400
      yoe == yy - era * 400
      mp == IF m > 2 THEN m - 3 ELSE m + 9
      doy == (153 * mp + 2) \div 5 + d - 1
      doe == yoe * 365 + yoe \div 4 - yoe \div 100 + doy
  IN  era * 146097 + doe - 719468

\* the number the digits of s from position i to position j spell, -1 if one
\* of them is not a digit
Field(s, i, j) ==
  IF j <= Len(s) /\ AllDigits(SubSeq(s, i, j)) THEN DigitsValue(SubSeq(s, i, j)) ELSE -1

\* Date.parse on the date-time format of ECMAScript in UTC, YYYY-MM-DD,
\* YYYY-MM-DDTHH:mm:ssZ and YYYY-MM-DDTHH:mm:ss.sssZ; every other text of
\* the model's inputs is not a date and gives an invalid Date
DateParse(s) ==
  LET y == Field(s, 1, 4)
      m == Field(s, 6, 7)
      d == Field(s, 9, 10)
      timed == Len(s) \in {20, 24}
      hh == IF timed THEN Field(s, 12, 13) ELSE 0
      mm == IF timed THEN Field(s, 15, 16) ELSE 0
      ss == IF timed THEN Field(s, 18, 19) ELSE 0
      ms == IF Len(s) = 24 THEN Field(s, 21, 23) ELSE 0
      shaped ==
        /\ Len(s) \in {10, 20, 24}
        /\ CharAt(s, 5) = "-" /\ CharAt(s, 8) = "-"
        /\ timed => /\ CharAt(s, 11) = "T" /\ CharAt(s, 14) = ":" /\ CharAt(s, 17) = ":"
                    /\ CharAt(s, Len(s)) = "Z"
        /\ Len(s) = 24 => CharAt(s, 20) = "."
  IN  IF shaped /\ y >= 0 /\ m \in 1..12 /\ d \in 1..31
         /\ hh \in 0..23 /\ mm \in 0..59 /\ ss \in 0..59 /\ ms >= 0
      THEN DateAt(DaysFromCivil(y, m, d) * 86400 + hh * 3600 + mm * 60 + ss, ms)
      ELSE InvalidDate

\* new Date(value)
NewDate(value) ==
  IF value.k = "date" THEN value
  ELSE IF value.k = "null" THEN DateAt(0, 0)
  ELSE IF value.k = "str" THEN DateParse(value.s)
  ELSE IF value.k = "num" /\ AllDigits(value.s) THEN Timestamp(DigitsValue(value.s))
  ELSE InvalidDate

\* `${n}` for an integer
IntString(n) == IF n < 0 THEN "-" \o DecimalString(-n) ELSE DecimalString(n)

\* the text of an elapsed time of sec seconds
RelativeText(sec) ==
  LET min == sec \div 60
      hr == min \div 60
      day == hr \div 24
      mo == day \div 30
      yr == mo \div 12
  IN  IF sec < 60 THEN Str(IntString(sec) \o "s ago")
      ELSE IF min < 60 THEN Str(IntString(min) \o " minutes ago")
      ELSE IF hr < 24 THEN Str(IntString(hr) \o " hours ago")
      ELSE IF day < 30 THEN Str(IntString(day) \o " days ago")
      ELSE IF mo < 12 THEN Str(IntString(mo) \o " months ago")
      ELSE Str(IntString(yr) \o " years ago")

\* mutant: a month ends with its 31st day
toRelativeTime_LongMonths(dateLike, clock) ==
  LET d == NewDate(dateLike)
      sec == (clock.sec - d.sec) + ((clock.ms - d.ms) \div 1000)
      day == sec \div 86400
  IN  IF d = InvalidDate THEN Null
      ELSE IF day >= 30 /\ day < 372
      THEN Str(IntString(day \div 31) \o " months ago")
      ELSE RelativeText(sec)

\* toRelativeTime(dateLike) at Date.now() = clock, clock being a Date;
\* sec is Math.floor(diffMs / 1000)
toRelativeTime(dateLike, clock) ==
  LET d == NewDate(dateLike)
      sec == (clock.sec - d.sec) + ((clock.ms - d.ms) \div 1000)
  IN  IF d = InvalidDate THEN Null ELSE RelativeText(sec)

\* Array.isArray(tags) ? tags : []
ArrayOf(items) == [k |-> "arr", s |-> "", items |-> items]
TagsOf(tags) == IF tags.k = "arr" THEN tags.items ELSE <<>>

\* t.some(x => subs.some(sub => x.includes(sub))) on the lowercased tags
SomeTagIncludes(tags, subs) ==
  \E i \in 1..Len(TagsOf(tags)) : \E sub \in subs :
    StringIncludes(toLowerCase(TagsOf(tags)[i]), sub)

UpperChar(c) ==
  IF \E i \in 1..Len(LowerCase) : CharAt(LowerCase, i) = c
  THEN CharAt(UpperCase, CHOOSE i \in 1..Len(LowerCase) : CharAt(LowerCase, i) = c)
  ELSE c

\* \w of a regular expression
IsWordChar(c) ==
  \/ \E i \in 1..Len(LowerCase) : CharAt(LowerCase, i) = c \/ CharAt(UpperCase, i) = c
  \/ c \in Digits
  \/ c = "_"

\* s.replace(/\w\S*/g, txt => txt.charAt(0).toUpperCase() + txt.slice(1)):
\* inMatch tells whether the character before s belongs to a match
RECURSIVE TitleCaseFrom(_, _)
TitleCaseFrom(s, inMatch) ==
  IF Len(s) = 0 THEN ""
  ELSE LET c == CharAt(s, 1)
           rest == SubSeq(s, 2, Len(s))
       IN  IF inMatch
           THEN c \o TitleCaseFrom(rest, c \notin WhiteSpace)
           ELSE IF IsWordChar(c) THEN UpperChar(c) \o TitleCaseFrom(rest, TRUE)
           ELSE c \o TitleCaseFrom(rest, FALSE)

titleCase(s) == TitleCaseFrom(s, FALSE)

\* s.replace(/[-_]/g, ' ')
RECURSIVE DashesToSpaces(_)
DashesToSpaces(s) ==
  IF Len(s) = 0 THEN ""
  ELSE (IF CharAt(s, 1) \in {"-", "_"} THEN " " ELSE CharAt(s, 1))
       \o DashesToSpaces(SubSeq(s, 2, Len(s)))

\* mutant: the cloud terms are looked for before the AI/ML terms
inferCategory_CloudFirst(tags) ==
  IF tags.k # "arr" \/ Len(tags.items) = 0 THEN "General"
  ELSE IF SomeTagIncludes(tags, {"cloud", "aws", "azure", "gcp"}) THEN "Cloud"
  ELSE IF SomeTagIncludes(tags, {"ai", "ml", "genai", "llm"}) THEN "AI/ML"
  ELSE IF SomeTagIncludes(tags, {"security", "cyber"}) THEN "Security"
  ELSE IF SomeTagIncludes(tags, {"data"}) THEN "Data"
  ELSE titleCase(DashesToSpaces(tags.items[1]))

inferCategory(tags) ==
  IF tags.k # "arr" \/ Len(tags.items) = 0 THEN "General"
  ELSE IF SomeTagIncludes(tags, {"ai", "ml", "genai", "llm"}) THEN "AI/ML"
  ELSE IF SomeTagIncludes(tags, {"cloud", "aws", "azure", "gcp"}) THEN "Cloud"
  ELSE IF SomeTagIncludes(tags, {"security", "cyber"}) THEN "Security"
  ELSE IF SomeTagIncludes(tags, {"data"}) THEN "Data"
  ELSE titleCase(DashesToSpaces(tags.items[1]))

highSignals ==
  {"regulation", "policy", "visa", "immigration", "h1b", "opt", "ai", "genai",
   "layoff", "funding", "merger"}

inferImpact(tags, isPolicy) ==
  IF SomeTagIncludes(tags, highSignals) THEN "High"
  ELSE IF isPolicy THEN "Medium"
  ELSE "Medium"

inferRegion(tags) ==
  IF SomeTagIncludes(tags, {"us", "usa", "america"}) THEN Str("United States")
  ELSE IF SomeTagIncludes(tags, {"india", "in"}) THEN Str("India")
  ELSE IF SomeTagIncludes(tags, {"eu", "europe"}) THEN Str("European Union")
  ELSE IF SomeTagIncludes(tags, {"uk", "britain"}) THEN Str("United Kingdom")
  ELSE Null

inferRelevantRoles(tags) ==
  (IF SomeTagIncludes(tags, {"ai", "ml", "genai"})
   THEN <<"AI Engineer", "Data Scientist">> ELSE <<>>)
  \o (IF SomeTagIncludes(tags, {"policy", "regulation", "compliance"})
      THEN <<"Compliance Officer", "Policy Analyst">> ELSE <<>>)
  \o (IF SomeTagIncludes(tags, {"visa", "immigration"})
      THEN <<"International Student", "Software Engineer">> ELSE <<>>)

\* a row of the news table as a query returns it
Article(id, title, body, source, published_at, tags) ==
  [id |-> id, title |-> title, body |-> body, source |-> source,
   published_at |-> published_at, tags |-> ArrayOf(tags)]

\* const formatIndustryItem = (item, idxBase = 0) => ({...})
formatIndustryItem(item, idxBase, clock) ==
  [id |-> OrElse(item.id, Num(IntString(idxBase))),
   title |-> item.title,
   source |-> item.source,
   date |-> toRelativeTime(OrElse(item.published_at, Undef), Timestamp(clock)),
   category |-> inferCategory(item.tags),
   impact |-> inferImpact(item.tags, FALSE),
   summary |-> Trim(OrElse(item.body, Str("")).s)]

\* const formatPolicyItem = (item) => ({...})
formatPolicyItem(item) ==
  [title |-> item.title,
   region |-> OrElse(inferRegion(item.tags), Str("Global")),
   status |-> "Active",
   impact |-> inferImpact(item.tags, TRUE),
   description |-> Trim(OrElse(item.body, Str("")).s),
   deadline |-> Null,
   relevantRoles |-> inferRelevantRoles(item.tags)]

----------------------------------------------------------------------------
(* The service operations behind the routes: one request *)

\* what a route answers: res.status(status).json(body)
NoResponse == [status |-> 0, body |-> [success |-> FALSE, error |-> ""]]
Respond(status, body) == [status |-> status, body |-> body]

\* mutant: a failure is answered without the failure flag
RespondError_AsSuccess(status, message) ==
  Respond(status, [success |-> TRUE, error |-> message])

\* res.status(status).json({ success: false, error: message })
RespondError(status, message) ==
  Respond(status, [success |-> FALSE, error |-> message])

\* an external call, as the history records it, and how it ended
Call(svc, fn) == [svc |-> svc, fn |-> fn, out |-> "pending"]
Settle(calls, k, out) == [calls EXCEPT ![k].out = out]

\* a prompt: the template used and the values interpolated into it, in order
\* (the fixed text of the template is left out)
Prompt(template, slots) == [template |-> template, slots |-> slots]
NoPrompt == Prompt("", <<>>)

\* the locals of the operation in progress
\* one entry of status.components; a key that is not written is undefined
Component(status, articleCount, error) ==
  [status |-> status, error |-> error, articleCount |-> articleCount]

\* status.components = {}: no entry has been written
NoComponent == Component("", Undef, Undef)
NoComponents ==
  [bigquery |-> NoComponent, newsapi |-> NoComponent, vertexai |-> NoComponent]

\* the status object of getSystemStatus before any check has run
NoStatus ==
  [service |-> "", timestamp |-> 0, components |-> NoComponents, overall |-> Undef]

NoLocals ==
  [prompt |-> NoPrompt, options |-> <<>>, trends |-> <<>>, ai |-> NoResult,
   status |-> NoStatus]

SvcIdle ==
  /\ svcOp = "none" /\ svcPc = "idle"
  /\ svcReq = NoRequest /\ svcLocals = NoLocals
  /\ oQueries = <<>> /\ warehouse = <<>>
  /\ svcCalls = <<>> /\ svcPrompts = <<>>
  /\ svcOutcome = NoOutcome /\ svcResp = NoResponse

\* no shaping helper has been applied
HelperIdle == hIn = <<>> /\ hOut = <<>>

----------------------------------------------------------------------------
(* GET /overview and OverviewService.getOverview *)

\* req.query of GET /overview: days and limit with the text preferences
OverviewRequest(days, limit, text) == [days |-> days, limit |-> limit, text |-> text]

\* prefs.days and prefs.limit as the route builds them
RouteDays(req) == OrElse(req.days, Num("7"))
RouteLimit(req) == OrElse(req.limit, Num("10"))

\* one warehouse query: the client method, its arguments, and how it ended
Query(fn, list, hasList, daysPast, limit, hasLimit) ==
  [fn |-> fn, list |-> list, hasList |-> hasList, daysPast |-> daysPast,
   limit |-> limit, hasLimit |-> hasLimit,
   state |-> "pending", rows |-> <<>>, error |-> NoError]

\* the array handed to Promise.all
OverviewQueries(req) ==
  LET prefs == RoutePrefs(req.text)
      days == NumberOr(RouteDays(req), 7)
      limit == NumberOr(RouteLimit(req), 10)
      likedSkills == splitCsv(prefs.skills)
      capped == MathMin(limit, JsNum(10, 0))
  IN  << Query("queryTopSkillsFiltered", <<>>, TRUE, days, limit, TRUE),
         Query("queryTopSkillsFiltered", likedSkills, TRUE, days, limit, TRUE),
         Query("queryArticlesByKeywords", GeneralKeywords(prefs), TRUE, days, limit, TRUE),
         Query("queryTopSources", <<>>, FALSE, days, limit, TRUE),
         Query("queryArticlesByTags", likedSkills, TRUE, days, capped, TRUE),
         Query("queryArticlesByKeywords", PolicyKeywords(prefs), TRUE, days, capped, TRUE),
         Query("queryArticlesByKeywords", EmergingKeywords(prefs), TRUE, days, capped, TRUE),
         Query("queryTopSources", <<>>, FALSE, days, JsNum(5, 0), TRUE),
         Query("queryVolumeByDay", <<>>, FALSE, days, NaN, FALSE) >>

\* list.map((it, i) => formatIndustryItem(it, i + 1))
ShapeIndustry(rows, clock) ==
  [i \in 1..Len(rows) |-> formatIndustryItem(rows[i], i, clock)]

\* list.map(formatPolicyItem)
ShapePolicies(rows) == [i \in 1..Len(rows) |-> formatPolicyItem(rows[i])]

\* mutant: the market insights take the sources of the fourth query
ResultOf_MarketInsights(results, k) == results[IF k = 8 THEN 4 ELSE k]

\* const [trendingGeneral, ..., volumeByDay] = await Promise.all([...]):
\* the k-th name is bound to the result of the k-th query
ResultOf(results, k) == results[k]

\* the value getOverview returns; results are the nine row lists in the
\* order of the array handed to Promise.all
OverviewDocument(req, results, clock) ==
  LET prefs == RoutePrefs(req.text)
      role == Trim(prefs.role)
  IN  [success |-> TRUE,
       period |-> [days |-> NumberOr(RouteDays(req), 7)],
       preferences |->
         [role |-> IF role # "" THEN Str(role) ELSE Undef,
          skills |-> splitCsv(prefs.skills),
          interests |-> splitCsv(prefs.interests),
          emerging |-> EmergingKeywords(prefs)],
       overview |->
         [trendingSkills |-> [general |-> ResultOf(results, 1), personalized |-> ResultOf(results, 2)],
          industryNews |->
            [personalized |-> ShapeIndustry(ResultOf(results, 3), clock),
             profileRelated |-> ShapeIndustry(ResultOf(results, 5), clock)],
          marketInsights |-> [topSources |-> ResultOf(results, 8), volumeByDay |-> ResultOf(results, 9)],
          governmentPoliciesAndRegulations |-> ShapePolicies(ResultOf(results, 6)),
          emergingTechnologies |-> ResultOf(results, 7)]]

\* the rows the warehouse holds for the nine queries, in the order of the array
SkillRow(skill, mentions) == [skill |-> skill, mentions |-> mentions]
SourceRow(source, count) == [source |-> source, count |-> count]
DayRow(day, count) == [day |-> day, count |-> count]

ArticleAiAct ==
  Article(Str("a1"), "EU AI Act enters into force", Str("  Obligations phase in.\n"),
          "Reuters", Timestamp(0 - 90 * 60 * 1000), <<"AI", "regulation", "EU">>)
ArticleVisa ==
  Article(Str(""), "H1B lottery opens", Null, "The Hindu", Null,
          <<"visa", "immigration">>)
ArticleRust ==
  Article(Str("a3"), "Rust in the kernel", Str("Memory safety"), "LWN",
          Timestamp(0 - 3 * 24 * 3600 * 1000), <<"systems-programming">>)

Warehouses ==
  { << <<SkillRow("python", 9), SkillRow("rust", 4)>>,
       <<SkillRow("python", 9)>>,
       <<ArticleAiAct, ArticleVisa>>,
       <<SourceRow("Reuters", 7), SourceRow("LWN", 3), SourceRow("BBC", 1)>>,
       <<ArticleRust>>,
       <<ArticleVisa, ArticleAiAct>>,
       <<ArticleRust, ArticleAiAct>>,
       <<SourceRow("Reuters", 7), SourceRow("LWN", 3)>>,
       <<DayRow("2025-01-01", 5), DayRow("2025-01-02", 6)>> >>,
    << <<>>, <<>>, <<>>, <<SourceRow("BBC", 1)>>, <<ArticleVisa>>, <<>>, <<>>,
       <<>>, <<>> >> }

\* the queries that fail in the model, and the errors they reject with,
\* told apart by the query
FailingQueries == {1, 3, 6, 9}
WarehouseErrors(i) == {NewError("Query " \o DecimalString(i) \o " failed: quota exceeded")}

\* mutant: the overview also asks the generative model
OverviewStart_WithModelCall(req, wh) ==
  /\ svcOp = "none"
  /\ svcOp' = "overview" /\ svcPc' = "queries"
  /\ svcReq' = req /\ warehouse' = wh
  /\ oQueries' = OverviewQueries(req)
  /\ svcCalls' = svcCalls \o [i \in 1..Len(OverviewQueries(req)) |->
                               Call("bigquery", OverviewQueries(req)[i].fn)]
                          \o <<Call("gemini", "generateContent")>>
  /\ UNCHANGED <<svcLocals, svcPrompts, svcOutcome, svcResp>>
  /\ UNCHANGED <<genVars, tokVars, parseVars, kwVars, helperVars>>

\* the route and getOverview up to the await: the nine queries are issued
OverviewStart(req, wh) ==
  /\ svcOp = "none"
  /\ svcOp' = "overview" /\ svcPc' = "queries"
  /\ svcReq' = req /\ warehouse' = wh
  /\ oQueries' = OverviewQueries(req)
  /\ svcCalls' = svcCalls \o [i \in 1..Len(OverviewQueries(req)) |->
                               Call("bigquery", OverviewQueries(req)[i].fn)]
  /\ UNCHANGED <<svcLocals, svcPrompts, svcOutcome, svcResp>>
  /\ UNCHANGED <<genVars, tokVars, parseVars, kwVars, helperVars>>

\* query i fulfils; when it is the last one, Promise.all fulfils, getOverview
\* shapes and returns the document and the route answers with it
QueryResolve(i) ==
  /\ svcOp = "overview"
  /\ i \in 1..Len(oQueries) /\ oQueries[i].state = "pending"
  /\ LET settled == [oQueries EXCEPT ![i].state = "resolved", ![i].rows = warehouse[i]]
         document == OverviewDocument(svcReq, [j \in 1..Len(settled) |-> settled[j].rows], now)
     IN  /\ oQueries' = settled
         /\ IF svcPc = "queries" /\ \A j \in 1..Len(settled) : settled[j].state = "resolved"
            THEN /\ svcPc' = "done"
                 /\ svcOutcome' = Returned(document)
                 /\ svcResp' = Respond(200, document)
            ELSE UNCHANGED <<svcPc, svcOutcome, svcResp>>
  /\ svcCalls' = Settle(svcCalls, i, "ok")
  /\ UNCHANGED <<svcOp, svcReq, svcLocals, warehouse, svcPrompts>>
  /\ UNCHANGED <<genVars, tokVars, parseVars, kwVars, helperVars>>

\* mutant: a rejected query is tolerated and counts as an empty result
QueryReject_Tolerated(i, error) ==
  /\ svcOp = "overview"
  /\ i \in 1..Len(oQueries) /\ oQueries[i].state = "pending"
  /\ oQueries' = [oQueries EXCEPT ![i].state = "rejected", ![i].error = error]
  /\ UNCHANGED <<svcPc, svcOutcome, svcResp>>
  /\ svcCalls' = Settle(svcCalls, i, "failed")
  /\ UNCHANGED <<svcOp, svcReq, svcLocals, warehouse, svcPrompts>>
  /\ UNCHANGED <<genVars, tokVars, parseVars, kwVars, helperVars>>

\* query i rejects; the first rejection rejects Promise.all, getOverview
\* raises that error and the route answers 500; later settlements are ignored
QueryReject(i, error) ==
  /\ svcOp = "overview"
  /\ i \in 1..Len(oQueries) /\ oQueries[i].state = "pending"
  /\ oQueries' = [oQueries EXCEPT ![i].state = "rejected", ![i].error = error]
  /\ IF svcPc = "queries"
     THEN /\ svcPc' = "done"
          /\ svcOutcome' = Thrown(error)
          /\ svcResp' = RespondError(500, error.message)
     ELSE UNCHANGED <<svcPc, svcOutcome, svcResp>>
  /\ svcCalls' = Settle(svcCalls, i, "failed")
  /\ UNCHANGED <<svcOp, svcReq, svcLocals, warehouse, svcPrompts>>
  /\ UNCHANGED <<genVars, tokVars, parseVars, kwVars, helperVars>>

\* the requests of the fan-out
DaysChoices ==
  {Undef, Str(""), Str("0"), Str("-3"), Str("2.5"), Str("abc"), Str("14"), Str(" 30 ")}
LimitChoices ==
  {Undef, Str(""), Str("0"), Str("-1"), Str("0.5"), Str("ten"), Str("5"), Str("25")}
ProfileRequest == MkRequest("data scientist", "Python, python ,,SQL", "healthcare,cloud", "", "", "", "")
OverviewRequests ==
  {OverviewRequest(Undef, Undef, NoRequest), OverviewRequest(Str("14"), Str("25"), ProfileRequest)}
ArgRequests ==
  {OverviewRequest(d, l, t) : d \in DaysChoices, l \in LimitChoices, t \in {NoRequest}}

----------------------------------------------------------------------------
(* POST /synthesis and SynthesisService.synthesize *)

\* the JSON body of POST /synthesis, or the argument of a direct call
SynthesisRequest(direct, realTimeText, governmentText, role, question) ==
  [direct |-> direct, realTimeText |-> realTimeText, governmentText |-> governmentText,
   role |-> role, question |-> question]

\* a destructuring default: it replaces undefined only
Default(v, dflt) == IF v.k = "undef" THEN dflt ELSE v

MsgNoTexts == "Provide at least one of realTimeText or governmentText"

\* `${v || alt}`
TextOr(v, alt) == IF Truthy(v) THEN ToText(v) ELSE alt

\* (v || '').length
LengthOf(v) == IF Truthy(v) THEN Len(v.s) ELSE 0

\* const tokenBudget
tokenBudget(detail) ==
  IF detail = "short" THEN "800" ELSE IF detail = "long" THEN "2048" ELSE "1400"

\* const lengthHint
lengthHint(detail) ==
  IF detail = "short" THEN "450-650 words"
  ELSE IF detail = "long" THEN "800-1100 words"
  ELSE "600-850 words"

\* SynthesisService.buildPrompt
buildPrompt(realTimeText, governmentText, role, question, detail) ==
  Prompt("synthesis",
         <<TextOr(realTimeText, "Not provided"), TextOr(governmentText, "Not provided"),
           TextOr(role, "N/A"), TextOr(question, "N/A"), lengthHint(detail)>>)

\* the options of a model call: temperature and maxTokens
CallOptions(temperature, maxTokens) == <<temperature, maxTokens>>

\* the value synthesize returns
SynthesisResult(req, ai, clock) ==
  [success |-> TRUE,
   synthesis |->
     [role |-> OrElse(Default(req.role, Str("")), Undef),
      question |-> OrElse(Default(req.question, Str("")), Undef),
      reportMarkdown |-> ai.text,
      finishReason |-> ai.finishReason],
   inputs |->
     [realTimeTextLength |-> LengthOf(Default(req.realTimeText, Str(""))),
      governmentTextLength |-> LengthOf(Default(req.governmentText, Str("")))],
   metadata |-> [generatedAt |-> clock]]

\* mutant: the prompt is built before the texts are validated
SynthesisStart_PromptFirst(req) ==
  LET realTimeText == Default(req.realTimeText, Str(""))
      governmentText == Default(req.governmentText, Str(""))
      prompt == buildPrompt(realTimeText, governmentText, Default(req.role, Str("")),
                            Default(req.question, Str("")), "standard")
  IN  /\ svcOp = "none"
      /\ svcOp' = "synthesis" /\ svcReq' = req
      /\ svcPrompts' = Append(svcPrompts, prompt)
      /\ IF ~Truthy(realTimeText) /\ ~Truthy(governmentText)
         THEN /\ svcPc' = "done"
              /\ svcOutcome' = IF req.direct THEN Thrown(NewError(MsgNoTexts)) ELSE NoOutcome
              /\ svcResp' = IF req.direct THEN NoResponse ELSE RespondError(400, MsgNoTexts)
              /\ UNCHANGED <<svcLocals, svcCalls>>
         ELSE /\ svcPc' = "model"
              /\ svcLocals' = [svcLocals EXCEPT
                                 !.prompt = prompt,
                                 !.options = CallOptions("0.3", tokenBudget("standard"))]
              /\ svcCalls' = Append(svcCalls, Call("gemini", "generateContent"))
              /\ UNCHANGED <<svcOutcome, svcResp>>
      /\ UNCHANGED <<oQueries, warehouse>>
      /\ UNCHANGED <<genVars, tokVars, parseVars, kwVars, helperVars>>

\* the route (unless the call is direct) and synthesize up to the model call:
\* both validate the texts before anything else
SynthesisStart(req) ==
  LET realTimeText == Default(req.realTimeText, Str(""))
      governmentText == Default(req.governmentText, Str(""))
      prompt == buildPrompt(realTimeText, governmentText, Default(req.role, Str("")),
                            Default(req.question, Str("")), "standard")
  IN  /\ svcOp = "none"
      /\ svcOp' = "synthesis" /\ svcReq' = req
      /\ IF ~Truthy(realTimeText) /\ ~Truthy(governmentText)
         THEN /\ svcPc' = "done"
              /\ svcOutcome' = IF req.direct THEN Thrown(NewError(MsgNoTexts)) ELSE NoOutcome
              /\ svcResp' = IF req.direct THEN NoResponse ELSE RespondError(400, MsgNoTexts)
              /\ UNCHANGED <<svcLocals, svcCalls, svcPrompts>>
         ELSE /\ svcPc' = "model"
              /\ svcLocals' = [svcLocals EXCEPT
                                 !.prompt = prompt,
                                 !.options = CallOptions("0.3", tokenBudget("standard"))]
              /\ svcPrompts' = Append(svcPrompts, prompt)
              /\ svcCalls' = Append(svcCalls, Call("gemini", "generateContent"))
              /\ UNCHANGED <<svcOutcome, svcResp>>
      /\ UNCHANGED <<oQueries, warehouse>>
      /\ UNCHANGED <<genVars, tokVars, parseVars, kwVars, helperVars>>

----------------------------------------------------------------------------
(* GET /insights and CareerInsightsService.generateCareerInsights *)

\* req.query of GET /insights
InsightsRequest(skills, role, experience, interests, location) ==
  [direct |-> FALSE, skills |-> skills, role |-> role, experience |-> experience,
   interests |-> interests, location |-> location]

\* const userProfile of the route, completed by the defaults of the service
UserProfile(req) ==
  [profileFreeText |-> "",
   skills |-> TextOr(req.skills, ""),
   role |-> TextOr(req.role, "software engineer"),
   experience |-> TextOr(req.experience, "mid-level"),
   interests |-> TextOr(req.interests, ""),
   location |-> TextOr(req.location, "")]

MsgNoTrends == "No trend data available"

\* trends.map(t => `${t.skill} (${t.mentions} mentions)`).join(', ')
TrendsText(trends) ==
  IF Len(trends) > 0
  THEN Join([i \in 1..Len(trends) |->
               trends[i].skill \o " (" \o IntString(trends[i].mentions) \o " mentions)"],
            ", ")
  ELSE MsgNoTrends

\* CareerInsightsService.buildCareerPrompt
buildCareerPrompt(profile, trendsText) ==
  Prompt("career",
         <<IF profile.profileFreeText # "" THEN profile.profileFreeText ELSE "Not provided",
           profile.role, profile.experience,
           IF profile.skills # "" THEN profile.skills ELSE "Not specified",
           IF profile.interests # "" THEN profile.interests ELSE "Not specified",
           IF profile.location # "" THEN profile.location ELSE "Not specified",
           trendsText, profile.role>>)

\* the value generateCareerInsights returns
InsightsResult(profile, ai, trends, articleCount, clock) ==
  [success |-> TRUE,
   insights |->
     [aiAdvice |-> ai.text,
      trending |-> trends,
      userProfile |-> profile,
      metadata |-> [articleCount |-> articleCount, trendsAnalyzed |-> Len(trends),
                    generatedAt |-> clock]]]

MsgInsightsFailed == "Insight generation failed: "

\* the route and generateCareerInsights up to the trend query
InsightsStart(req) ==
  /\ svcOp = "none"
  /\ svcOp' = "insights" /\ svcPc' = "trends" /\ svcReq' = req
  /\ svcCalls' = Append(svcCalls, Call("bigquery", "queryTopTrends"))
  /\ UNCHANGED <<svcLocals, oQueries, warehouse, svcPrompts, svcOutcome, svcResp>>
  /\ UNCHANGED <<genVars, tokVars, parseVars, kwVars, helperVars>>

\* the trend query returns rows: the prompt is built and the model is called
TrendsResolve(rows) ==
  /\ svcOp = "insights" /\ svcPc = "trends"
  /\ LET prompt == buildCareerPrompt(UserProfile(svcReq), TrendsText(rows))
     IN  /\ svcLocals' = [svcLocals EXCEPT !.trends = rows, !.prompt = prompt,
                                           !.options = CallOptions("0.5", "1400")]
         /\ svcPrompts' = Append(svcPrompts, prompt)
  /\ svcCalls' = Append(Settle(svcCalls, Len(svcCalls), "ok"),
                         Call("gemini", "generateContent"))
  /\ svcPc' = "model"
  /\ UNCHANGED <<svcOp, svcReq, oQueries, warehouse, svcOutcome, svcResp>>
  /\ UNCHANGED <<genVars, tokVars, parseVars, kwVars, helperVars>>

\* mutant: a failed trend query fails the whole operation
TrendsReject_FailsOperation ==
  /\ svcOp = "insights" /\ svcPc = "trends"
  /\ svcOutcome' = Thrown(NewError(MsgInsightsFailed \o "Query 1 failed: quota exceeded"))
  /\ svcResp' = RespondError(500, svcOutcome'.error.message)
  /\ svcPc' = "done"
  /\ svcCalls' = Settle(svcCalls, Len(svcCalls), "failed")
  /\ UNCHANGED <<svcOp, svcReq, svcLocals, oQueries, warehouse, svcPrompts>>
  /\ UNCHANGED <<genVars, tokVars, parseVars, kwVars, helperVars>>

\* the trend query fails: the failure is swallowed and the defaults are used
TrendsReject ==
  /\ svcOp = "insights" /\ svcPc = "trends"
  /\ LET prompt == buildCareerPrompt(UserProfile(svcReq), MsgNoTrends)
     IN  /\ svcLocals' = [svcLocals EXCEPT !.trends = <<>>, !.prompt = prompt,
                                           !.options = CallOptions("0.5", "1400")]
         /\ svcPrompts' = Append(svcPrompts, prompt)
  /\ svcCalls' = Append(Settle(svcCalls, Len(svcCalls), "failed"),
                         Call("gemini", "generateContent"))
  /\ svcPc' = "model"
  /\ UNCHANGED <<svcOp, svcReq, oQueries, warehouse, svcOutcome, svcResp>>
  /\ UNCHANGED <<genVars, tokVars, parseVars, kwVars, helperVars>>

\* getArticleCount returns rows: rows[0]?.count || 0
CountResolve(count) ==
  /\ svcOp = "insights" /\ svcPc = "count"
  /\ LET result == InsightsResult(UserProfile(svcReq), svcLocals.ai, svcLocals.trends,
                                  count, now)
     IN  /\ svcOutcome' = Returned(result)
         /\ svcResp' = Respond(200, result)
  /\ svcPc' = "done"
  /\ svcCalls' = Settle(svcCalls, Len(svcCalls), "ok")
  /\ UNCHANGED <<svcOp, svcReq, svcLocals, oQueries, warehouse, svcPrompts>>
  /\ UNCHANGED <<genVars, tokVars, parseVars, kwVars, helperVars>>

\* getArticleCount fails: the failure is swallowed and the count is 0
CountReject ==
  /\ svcOp = "insights" /\ svcPc = "count"
  /\ LET result == InsightsResult(UserProfile(svcReq), svcLocals.ai, svcLocals.trends,
                                  0, now)
     IN  /\ svcOutcome' = Returned(result)
         /\ svcResp' = Respond(200, result)
  /\ svcPc' = "done"
  /\ svcCalls' = Settle(svcCalls, Len(svcCalls), "failed")
  /\ UNCHANGED <<svcOp, svcReq, svcLocals, oQueries, warehouse, svcPrompts>>
  /\ UNCHANGED <<genVars, tokVars, parseVars, kwVars, helperVars>>

----------------------------------------------------------------------------
(* POST /prompt: generateContent behind a route *)

\* the JSON body of POST /prompt
PromptRequest(prompt, temperature, maxTokens) ==
  [direct |-> FALSE, prompt |-> prompt, temperature |-> temperature,
   maxTokens |-> maxTokens]

MsgNoPrompt == "Provide non-empty 'prompt' in JSON body"

\* the route up to the model call
PromptStart(req) ==
  LET prompt == Default(req.prompt, Str(""))
  IN  /\ svcOp = "none"
      /\ svcOp' = "prompt" /\ svcReq' = req
      /\ IF ~Truthy(prompt) \/ prompt.k # "str" \/ Trim(prompt.s) = ""
         THEN /\ svcPc' = "done"
              /\ svcResp' = RespondError(400, MsgNoPrompt)
              /\ UNCHANGED <<svcLocals, svcCalls>>
         ELSE /\ svcPc' = "model"
              /\ svcLocals' = [svcLocals EXCEPT
                                 !.prompt = Prompt("raw", <<prompt.s>>),
                                 !.options = CallOptions(ToText(req.temperature),
                                                         ToText(req.maxTokens))]
              /\ svcCalls' = Append(svcCalls, Call("gemini", "generateContent"))
              /\ UNCHANGED svcResp
      /\ UNCHANGED <<oQueries, warehouse, svcPrompts, svcOutcome>>
      /\ UNCHANGED <<genVars, tokVars, parseVars, kwVars, helperVars>>

----------------------------------------------------------------------------
(* JSON.parse *)

\* the values JSON.parse builds
ParsedBool(b) == [k |-> "bool", s |-> b]
ParsedArray(items) == [k |-> "arr", s |-> "", items |-> items]
ParsedObject(members) == [k |-> "obj", s |-> "", members |-> members]
ParsedMember(name, value) == [name |-> name, value |-> value]

\* the outcome of reading one production: the value and the next position
ParseFail == [ok |-> FALSE, v |-> Undef, next |-> 0]
Parsed(v, next) == [ok |-> TRUE, v |-> v, next |-> next]

RECURSIVE SkipSpace(_, _)
SkipSpace(s, i) ==
  IF i <= Len(s) /\ CharAt(s, i) \in WhiteSpace THEN SkipSpace(s, i + 1) ELSE i

StartsAt(s, i, lit) ==
  i + Len(lit) - 1 <= Len(s) /\ SubSeq(s, i, i + Len(lit) - 1) = lit

\* the characters of a string literal up to its closing quote; of the escapes
\* \" \\ and \n are read, and a raw line break ends the parse
RECURSIVE ParseChars(_, _, _)
ParseChars(s, i, acc) ==
  IF i > Len(s) THEN ParseFail
  ELSE LET c == CharAt(s, i)
       IN  IF c = "\"" THEN Parsed(Str(acc), i + 1)
           ELSE IF c = "\n" THEN ParseFail
           ELSE IF c = "\\"
           THEN IF i + 1 > Len(s) THEN ParseFail
                ELSE IF CharAt(s, i + 1) \in {"\"", "\\"}
                THEN ParseChars(s, i + 2, acc \o CharAt(s, i + 1))
                ELSE IF CharAt(s, i + 1) = "n" THEN ParseChars(s, i + 2, acc \o "\n")
                ELSE ParseFail
           ELSE ParseChars(s, i + 1, acc \o c)

RECURSIVE DigitsEnd(_, _)
DigitsEnd(s, i) ==
  IF i <= Len(s) /\ CharAt(s, i) \in Digits THEN DigitsEnd(s, i + 1) ELSE i

\* a number: -? (0 | [1-9][0-9]*) (. [0-9]+)?   (exponents are not read)
ParseNumber(s, i) ==
  LET j == IF StartsAt(s, i, "-") THEN i + 1 ELSE i
      e == IF StartsAt(s, j, "0") THEN j + 1 ELSE DigitsEnd(s, j)
      f == IF StartsAt(s, e, ".") THEN DigitsEnd(s, e + 1) ELSE e
  IN  IF e = j \/ f = e + 1 THEN ParseFail
      ELSE Parsed(Num(SubSeq(s, i, f - 1)), f)

RECURSIVE ParseValue(_, _)
RECURSIVE ParseElements(_, _, _)
RECURSIVE ParseMembers(_, _, _)

ParseValue(s, from) ==
  LET i == SkipSpace(s, from)
  IN  IF i > Len(s) THEN ParseFail
      ELSE IF StartsAt(s, i, "null") THEN Parsed(Null, i + 4)
      ELSE IF StartsAt(s, i, "true") THEN Parsed(ParsedBool("true"), i + 4)
      ELSE IF StartsAt(s, i, "false") THEN Parsed(ParsedBool("false"), i + 5)
      ELSE IF StartsAt(s, i, "\"") THEN ParseChars(s, i + 1, "")
      ELSE IF StartsAt(s, i, "[")
      THEN LET j == SkipSpace(s, i + 1)
           IN  IF StartsAt(s, j, "]") THEN Parsed(ParsedArray(<<>>), j + 1)
               ELSE ParseElements(s, j, <<>>)
      ELSE IF StartsAt(s, i, "{")
      THEN LET j == SkipSpace(s, i + 1)
           IN  IF StartsAt(s, j, "}") THEN Parsed(ParsedObject(<<>>), j + 1)
               ELSE ParseMembers(s, j, <<>>)
      ELSE ParseNumber(s, i)

\* the elements of an array from position i, after those of acc
ParseElements(s, i, acc) ==
  LET e == ParseValue(s, i)
      j == SkipSpace(s, e.next)
      items == Append(acc, e.v)
  IN  IF ~e.ok THEN ParseFail
      ELSE IF StartsAt(s, j, ",") THEN ParseElements(s, j + 1, items)
      ELSE IF StartsAt(s, j, "]") THEN Parsed(ParsedArray(items), j + 1)
      ELSE ParseFail

\* the members of an object from position from, after those of acc
ParseMembers(s, from, acc) ==
  LET i == SkipSpace(s, from)
      name == ParseChars(s, i + 1, "")
      colon == SkipSpace(s, name.next)
      val == ParseValue(s, colon + 1)
      j == SkipSpace(s, val.next)
      members == Append(acc, ParsedMember(name.v.s, val.v))
  IN  IF ~StartsAt(s, i, "\"") THEN ParseFail
      ELSE IF ~name.ok THEN ParseFail
      ELSE IF ~StartsAt(s, colon, ":") THEN ParseFail
      ELSE IF ~val.ok THEN ParseFail
      ELSE IF StartsAt(s, j, ",") THEN ParseMembers(s, j + 1, members)
      ELSE IF StartsAt(s, j, "}") THEN Parsed(ParsedObject(members), j + 1)
      ELSE ParseFail

\* JSON.parse(text): one value and nothing but white space after it;
\* ok = FALSE stands for the SyntaxError
JsonParse(text) ==
  LET r == ParseValue(text, 1)
  IN  IF r.ok /\ SkipSpace(text, r.next) > Len(text) THEN r ELSE ParseFail

\* value[name] of a parsed value other than null: the last member of that
\* name of an object, undefined otherwise
GetMember(value, name) ==
  IF value.k = "obj" /\ \E i \in 1..Len(value.members) : value.members[i].name = name
  THEN value.members[CHOOSE i \in 1..Len(value.members) :
                       /\ value.members[i].name = name
                       /\ \A j \in (i + 1)..Len(value.members) :
                            value.members[j].name # name].value
  ELSE Undef

----------------------------------------------------------------------------
(* POST /roadmap *)

\* the JSON body of POST /roadmap
RoadmapRequest(roadmapName, title, role, skills, currentExperience, targetDuration) ==
  [direct |-> FALSE, roadmapName |-> roadmapName, title |-> title, role |-> role,
   skills |-> skills, currentExperience |-> currentExperience,
   targetDuration |-> targetDuration]

MsgNoTitle == "Provide roadmapName (or title/role) in the request body."
MsgTrimNotAFunction == "(roadmapName || title || role || \"\").trim is not a function"
MsgModelFailed == "Model generation failed"
MsgEmptyResponse == "Empty response from model"
MsgParseFailed == "Failed to parse model JSON"
MsgReadOfNull == "Cannot read properties of null (reading 'roadmapData')"

\* roadmapName || title || role || ''
TitleValue(req) ==
  OrElse(OrElse(OrElse(Default(req.roadmapName, Str("")), req.title), req.role), Str(""))

\* let userSkills
UserSkills(skills) ==
  IF skills.k = "str" THEN NonEmpty(TrimAll(Split(skills.s, {","}))) ELSE <<>>

\* const prompt of the route
RoadmapPrompt(requestedTitle, req) ==
  LET userSkills == UserSkills(Default(req.skills, Str("")))
  IN  Prompt("roadmap",
             <<requestedTitle,
               IF Len(userSkills) > 0 THEN Join(userSkills, ", ") ELSE "None provided",
               TextOr(Default(req.currentExperience, Str("")), "Not specified"),
               TextOr(Default(req.targetDuration, Str("")), "Not specified"),
               requestedTitle>>)

\* the options of the model call of the route
RoadmapOptions == <<"0.4", "4000", "application/json">>

\* the route up to the model call
RoadmapStart(req) ==
  LET title == TitleValue(req)
      requestedTitle == Trim(title.s)
      prompt == RoadmapPrompt(requestedTitle, req)
  IN  /\ svcOp = "none"
      /\ svcOp' = "roadmap" /\ svcReq' = req
      /\ IF title.k # "str"
         THEN \* .trim of a number or an array: the TypeError reaches the outer catch
              /\ svcPc' = "done"
              /\ svcResp' = RespondError(500, MsgTrimNotAFunction)
              /\ UNCHANGED <<svcLocals, svcCalls, svcPrompts>>
         ELSE IF requestedTitle = ""
         THEN /\ svcPc' = "done"
              /\ svcResp' = RespondError(400, MsgNoTitle)
              /\ UNCHANGED <<svcLocals, svcCalls, svcPrompts>>
         ELSE /\ svcPc' = "model"
              /\ svcLocals' = [svcLocals EXCEPT !.prompt = prompt,
                                                !.options = RoadmapOptions]
              /\ svcPrompts' = Append(svcPrompts, prompt)
              /\ svcCalls' = Append(svcCalls, Call("gemini", "generateContent"))
              /\ UNCHANGED svcResp
      /\ UNCHANGED <<oQueries, warehouse, svcOutcome>>
      /\ UNCHANGED <<genVars, tokVars, parseVars, kwVars, helperVars>>

\* s.indexOf(c) and s.lastIndexOf(c), counted from 1; 0 when c is absent
IndexOf(s, c) ==
  IF \E i \in 1..Len(s) : CharAt(s, i) = c
  THEN CHOOSE i \in 1..Len(s) : CharAt(s, i) = c /\ \A j \in 1..(i - 1) : CharAt(s, j) # c
  ELSE 0
LastIndexOf(s, c) ==
  IF \E i \in 1..Len(s) : CharAt(s, i) = c
  THEN CHOOSE i \in 1..Len(s) :
         CharAt(s, i) = c /\ \A j \in (i + 1)..Len(s) : CharAt(s, j) # c
  ELSE 0

\* const candidate: from the first "{" to the last "}" when both are there
JsonCandidate(rawText) ==
  LET firstBrace == IndexOf(rawText, "{")
      lastBrace == LastIndexOf(rawText, "}")
  IN  IF firstBrace >= 1 /\ lastBrace > firstBrace
      THEN SubSeq(rawText, firstBrace, lastBrace)
      ELSE rawText

\* mutant: a failed parse is answered with the text itself as the roadmap
RoadmapAnswer_ParseFailureAsSuccess(ai) ==
  LET rawText == IF Truthy(ai.text) THEN Trim(ai.text.s) ELSE ""
  IN  Respond(200, [success |-> TRUE, roadmap |-> Str(rawText),
                    certifications |-> EmptyArr, finishReason |-> ai.finishReason])

\* what the route answers once the model call returned ai
RoadmapAnswer(ai) ==
  LET rawText == IF Truthy(ai.text) THEN Trim(ai.text.s) ELSE ""
      parsed == JsonParse(JsonCandidate(rawText))
  IN  IF rawText = "" THEN RespondError(500, MsgEmptyResponse)
      ELSE IF ~parsed.ok
      THEN Respond(502, [success |-> FALSE, error |-> MsgParseFailed, raw |-> rawText])
      ELSE IF parsed.v.k = "null"
      THEN \* parsed.roadmapData of null: the TypeError reaches the outer catch
           RespondError(500, MsgReadOfNull)
      ELSE Respond(200, [success |-> TRUE,
                         roadmap |-> GetMember(parsed.v, "roadmapData"),
                         certifications |->
                           OrElse(GetMember(parsed.v, "certifications"), EmptyArr),
                         finishReason |-> ai.finishReason])

----------------------------------------------------------------------------
(* GET /trends: the trend cards *)

\* req.query of GET /trends
TrendsRequest(days, format, limit) ==
  [direct |-> FALSE, days |-> days, format |-> format, limit |-> limit]

\* Number.parseInt(v): the integer spelled by the digits that follow leading
\* white space and a sign, NaN when there is no digit
ParseInt(v) ==
  LET t == TrimStart(ToText(v))
      signed == Len(t) > 0 /\ CharAt(t, 1) \in {"-", "+"}
      sign == IF Len(t) > 0 /\ CharAt(t, 1) = "-" THEN -1 ELSE 1
      u == IF signed THEN SubSeq(t, 2, Len(t)) ELSE t
      e == DigitsEnd(u, 1)
  IN  IF e = 1 THEN NaN ELSE JsNum(sign * DigitsValue(SubSeq(u, 1, e - 1)), 0)

\* const days = Number.parseInt(req.query.days) || 7
CardsDays(req) ==
  LET x == ParseInt(req.days)
  IN  IF ~x.nan /\ x.n # 0 THEN x.n ELSE 7

\* const format = (req.query.format || 'card').toLowerCase()
CardsFormat(req) == toLowerCase(OrElse(req.format, Str("card")).s)

MaxCards == 20
DefaultCards == 10

\* const limit
CardsLimit(req) ==
  LET limitParam == ParseInt(req.limit)
  IN  IF ~limitParam.nan /\ limitParam.n > 0
      THEN (IF limitParam.n < MaxCards THEN limitParam.n ELSE MaxCards)
      ELSE DefaultCards

\* `${days} days`
Period(req) == IntString(CardsDays(req)) \o " days"

\* const skillsList: per row its number, skill and mentions
SkillsList(top) == [i \in 1..Len(top) |-> <<i, top[i].skill, top[i].mentions>>]

\* text.split(/\n\s*\n/): the pieces between the separators, a separator
\* being a line break, white space and a line break, as long as possible;
\* matches are searched from position from
RECURSIVE SplitBlankLines(_, _)
SplitBlankLines(s, from) ==
  LET breaks == {i \in from..Len(s) : CharAt(s, i) = "\n"}
  IN  IF breaks = {} THEN <<s>>
      ELSE LET i == CHOOSE b \in breaks : \A c \in breaks : b <= c
               e == SkipSpace(s, i)
               last == CHOOSE b \in i..(e - 1) :
                         /\ CharAt(s, b) = "\n"
                         /\ \A c \in (b + 1)..(e - 1) : CharAt(s, c) # "\n"
           IN  IF last > i
               THEN <<SubSeq(s, 1, i - 1)>>
                    \o SplitBlankLines(SubSeq(s, last + 1, Len(s)), 1)
               ELSE SplitBlankLines(s, e)

\* const cards
CardsOf(ai) ==
  LET text == Trim(IF Truthy(ai.text) THEN ToText(ai.text) ELSE "")
  IN  NonEmpty(TrimAll(SplitBlankLines(text, 1)))

\* the route up to the trend query
CardsStart(req) ==
  /\ svcOp = "none"
  /\ svcOp' = "cards" /\ svcPc' = "rows" /\ svcReq' = req
  /\ svcCalls' = Append(svcCalls, Call("bigquery", "queryTopTrends"))
  /\ UNCHANGED <<svcLocals, oQueries, warehouse, svcPrompts, svcOutcome, svcResp>>
  /\ UNCHANGED <<genVars, tokVars, parseVars, kwVars, helperVars>>

\* mutant: the model is asked for cards even when there is no row
CardsRowsResolve_AlwaysAsks(rows) ==
  LET top == Slice(rows, CardsLimit(svcReq))
      prompt == Prompt("cards", <<IntString(CardsDays(svcReq)), SkillsList(top)>>)
  IN  /\ svcOp = "cards" /\ svcPc = "rows"
      /\ IF CardsFormat(svcReq) = "raw"
         THEN /\ svcPc' = "done"
              /\ svcResp' = Respond(200, [success |-> TRUE, trends |-> top,
                                          period |-> Period(svcReq), count |-> Len(top)])
              /\ svcCalls' = Settle(svcCalls, Len(svcCalls), "ok")
              /\ svcLocals' = [svcLocals EXCEPT !.trends = top]
              /\ UNCHANGED svcPrompts
         ELSE /\ svcPc' = "model"
              /\ svcLocals' = [svcLocals EXCEPT !.trends = top, !.prompt = prompt,
                                                !.options = <<"text/plain">>]
              /\ svcPrompts' = Append(svcPrompts, prompt)
              /\ svcCalls' = Append(Settle(svcCalls, Len(svcCalls), "ok"),
                                     Call("gemini", "generateContent"))
              /\ UNCHANGED svcResp
      /\ UNCHANGED <<svcOp, svcReq, oQueries, warehouse, svcOutcome>>
      /\ UNCHANGED <<genVars, tokVars, parseVars, kwVars, helperVars>>

\* the trend query returns rows: the raw answer, the empty answer, or the
\* model call
CardsRowsResolve(rows) ==
  LET top == Slice(rows, CardsLimit(svcReq))
      prompt == Prompt("cards", <<IntString(CardsDays(svcReq)), SkillsList(top)>>)
  IN  /\ svcOp = "cards" /\ svcPc = "rows"
      /\ IF CardsFormat(svcReq) = "raw"
         THEN /\ svcPc' = "done"
              /\ svcResp' = Respond(200, [success |-> TRUE, trends |-> top,
                                          period |-> Period(svcReq), count |-> Len(top)])
              /\ svcCalls' = Settle(svcCalls, Len(svcCalls), "ok")
              /\ svcLocals' = [svcLocals EXCEPT !.trends = top]
              /\ UNCHANGED svcPrompts
         ELSE IF Len(top) = 0
         THEN /\ svcPc' = "done"
              /\ svcResp' = Respond(200, [success |-> TRUE, cards |-> <<>>,
                                          period |-> Period(svcReq), count |-> 0])
              /\ svcCalls' = Settle(svcCalls, Len(svcCalls), "ok")
              /\ svcLocals' = [svcLocals EXCEPT !.trends = top]
              /\ UNCHANGED svcPrompts
         ELSE /\ svcPc' = "model"
              /\ svcLocals' = [svcLocals EXCEPT !.trends = top, !.prompt = prompt,
                                                !.options = <<"text/plain">>]
              /\ svcPrompts' = Append(svcPrompts, prompt)
              /\ svcCalls' = Append(Settle(svcCalls, Len(svcCalls), "ok"),
                                     Call("gemini", "generateContent"))
              /\ UNCHANGED svcResp
      /\ UNCHANGED <<svcOp, svcReq, oQueries, warehouse, svcOutcome>>
      /\ UNCHANGED <<genVars, tokVars, parseVars, kwVars, helperVars>>

\* the trend query fails: the route answers 500 with the error's message
CardsRowsReject(error) ==
  /\ svcOp = "cards" /\ svcPc = "rows"
  /\ svcPc' = "done"
  /\ svcResp' = RespondError(500, error.message)
  /\ svcCalls' = Settle(svcCalls, Len(svcCalls), "failed")
  /\ UNCHANGED <<svcOp, svcReq, svcLocals, oQueries, warehouse, svcPrompts, svcOutcome>>
  /\ UNCHANGED <<genVars, tokVars, parseVars, kwVars, helperVars>>

----------------------------------------------------------------------------
(* GET /status and CareerInsightsService.getSystemStatus *)

MsgInvalidKey == "Invalid API key"

\* status.components[name] = component
SetComponent(status, name, component) ==
  [status EXCEPT !.components[name] = component]

\* mutant: only the last check decides the overall health
hasErrors_LastCheckOnly(components) ==
  components["vertexai"].status = "error"

\* Object.values(status.components).some(component => component.status === 'error')
hasErrors(components) ==
  \E name \in DOMAIN components : components[name].status = "error"

\* status.overall = hasErrors ? 'degraded' : 'healthy'
Overall(components) == IF hasErrors(components) THEN "degraded" ELSE "healthy"

\* const httpStatus = status.overall === 'healthy' ? 200 : 503
HttpStatus(status) == IF status.overall = Str("healthy") THEN 200 ELSE 503

\* the route and getSystemStatus up to the warehouse check
StatusStart ==
  /\ svcOp = "none"
  /\ svcOp' = "status" /\ svcPc' = "bigquery"
  /\ svcLocals' = [svcLocals EXCEPT !.status =
                     [service |-> "career-insights-api", timestamp |-> now,
                      components |-> NoComponents, overall |-> Undef]]
  /\ svcCalls' = Append(svcCalls, Call("bigquery", "getArticleCount"))
  /\ UNCHANGED <<svcReq, oQueries, warehouse, svcPrompts, svcOutcome, svcResp>>
  /\ UNCHANGED <<genVars, tokVars, parseVars, kwVars, helperVars>>

\* the warehouse check settled: its entry is written, the news API is asked
BigqueryChecked(out, component) ==
  /\ svcOp = "status" /\ svcPc = "bigquery"
  /\ svcLocals' = [svcLocals EXCEPT !.status = SetComponent(@, "bigquery", component)]
  /\ svcCalls' = Append(Settle(svcCalls, Len(svcCalls), out),
                         Call("newsapi", "validateApiKey"))
  /\ svcPc' = "newsapi"
  /\ UNCHANGED <<svcOp, svcReq, oQueries, warehouse, svcPrompts, svcOutcome, svcResp>>
  /\ UNCHANGED <<genVars, tokVars, parseVars, kwVars, helperVars>>

\* getArticleCount returns count
BigqueryCheckResolve(count) ==
  BigqueryChecked("ok", Component("healthy", Num(IntString(count)), Undef))

\* getArticleCount fails with error
BigqueryCheckReject(error) ==
  BigqueryChecked("failed", Component("error", Undef, Str(error.message)))

\* the news API check settled: its entry is written, the token is asked for
NewsapiChecked(out, component) ==
  /\ svcOp = "status" /\ svcPc = "newsapi"
  /\ svcLocals' = [svcLocals EXCEPT !.status = SetComponent(@, "newsapi", component)]
  /\ svcCalls' = Append(Settle(svcCalls, Len(svcCalls), out),
                         Call("gemini", "getAccessToken"))
  /\ svcPc' = "vertexai"
  /\ UNCHANGED <<svcOp, svcReq, oQueries, warehouse, svcPrompts, svcOutcome, svcResp>>
  /\ UNCHANGED <<genVars, tokVars, parseVars, kwVars, helperVars>>

\* validateApiKey returns isValid
NewsapiCheckResolve(isValid) ==
  NewsapiChecked(IF isValid THEN "ok" ELSE "invalid",
                 Component(IF isValid THEN "healthy" ELSE "error", Undef,
                           IF ~isValid THEN Str(MsgInvalidKey) ELSE Undef))

\* validateApiKey fails with error
NewsapiCheckReject(error) ==
  NewsapiChecked("failed", Component("error", Undef, Str(error.message)))

\* the token check settled: its entry is written, the overall health is
\* derived, getSystemStatus returns and the route answers
VertexaiChecked(out, component) ==
  /\ svcOp = "status" /\ svcPc = "vertexai"
  /\ LET checked == SetComponent(svcLocals.status, "vertexai", component)
         status == [checked EXCEPT !.overall = Str(Overall(checked.components))]
     IN  /\ svcLocals' = [svcLocals EXCEPT !.status = status]
         /\ svcResp' = Respond(HttpStatus(status), status)
  /\ svcCalls' = Settle(svcCalls, Len(svcCalls), out)
  /\ svcPc' = "done"
  /\ UNCHANGED <<svcOp, svcReq, oQueries, warehouse, svcPrompts, svcOutcome>>
  /\ UNCHANGED <<genVars, tokVars, parseVars, kwVars, helperVars>>

\* getAccessToken returns a token
VertexaiCheckResolve ==
  VertexaiChecked("ok", Component("healthy", Undef, Undef))

\* getAccessToken fails with error
VertexaiCheckReject(error) ==
  VertexaiChecked("failed", Component("error", Undef, Str(error.message)))

----------------------------------------------------------------------------
(* The model call of a service operation settles *)

\* generateContent returns ai
ModelReturn(ai) ==
  /\ svcPc = "model"
  /\ CASE svcOp = "synthesis" ->
            LET result == SynthesisResult(svcReq, ai, now)
            IN  /\ svcPc' = "done"
                /\ svcOutcome' = Returned(result)
                /\ svcResp' = IF svcReq.direct THEN NoResponse ELSE Respond(200, result)
                /\ svcCalls' = Settle(svcCalls, Len(svcCalls), "ok")
                /\ UNCHANGED svcLocals
       [] svcOp = "insights" ->
            /\ svcPc' = "count"
            /\ svcLocals' = [svcLocals EXCEPT !.ai = ai]
            /\ svcCalls' = Append(Settle(svcCalls, Len(svcCalls), "ok"),
                                   Call("bigquery", "getArticleCount"))
            /\ UNCHANGED <<svcOutcome, svcResp>>
       [] svcOp = "prompt" ->
            /\ svcPc' = "done"
            /\ svcOutcome' = Returned(ai)
            /\ svcResp' = Respond(200, [success |-> TRUE, output |-> ai.text,
                                        finishReason |-> ai.finishReason])
            /\ svcCalls' = Settle(svcCalls, Len(svcCalls), "ok")
            /\ UNCHANGED svcLocals
       [] svcOp = "cards" ->
            /\ svcPc' = "done"
            /\ svcOutcome' = Returned(ai)
            /\ svcResp' = Respond(200, [success |-> TRUE, cards |-> CardsOf(ai),
                                        period |-> Period(svcReq),
                                        count |-> Len(CardsOf(ai))])
            /\ svcCalls' = Settle(svcCalls, Len(svcCalls), "ok")
            /\ UNCHANGED svcLocals
       [] svcOp = "roadmap" ->
            /\ svcPc' = "done"
            /\ svcOutcome' = Returned(ai)
            /\ svcResp' = RoadmapAnswer(ai)
            /\ svcCalls' = Settle(svcCalls, Len(svcCalls), "ok")
            /\ svcLocals' = [svcLocals EXCEPT !.ai = ai]
  /\ UNCHANGED <<svcOp, svcReq, oQueries, warehouse, svcPrompts>>
  /\ UNCHANGED <<genVars, tokVars, parseVars, kwVars, helperVars>>

\* generateContent raises error
ModelThrow(error) ==
  /\ svcPc = "model"
  /\ LET raised == IF svcOp = "insights"
                   THEN NewError(MsgInsightsFailed \o error.message)
                   ELSE error
     IN  /\ svcOutcome' = Thrown(raised)
         /\ svcResp' = IF svcReq.direct THEN NoResponse
                       ELSE IF svcOp = "roadmap"
                       THEN Respond(500, [success |-> FALSE, error |-> MsgModelFailed,
                                          details |-> error.message])
                       ELSE RespondError(500, raised.message)
  /\ svcPc' = "done"
  /\ svcCalls' = Settle(svcCalls, Len(svcCalls), "failed")
  /\ UNCHANGED <<svcOp, svcReq, svcLocals, oQueries, warehouse, svcPrompts>>
  /\ UNCHANGED <<genVars, tokVars, parseVars, kwVars, helperVars>>

\* the inputs of the service operations
TextChoices == {Undef, Null, Str(""), Str("Hiring is up"), Str(" ")}
SynthesisRequests ==
  {SynthesisRequest(direct, rt, gt, role, Undef) :
     direct \in BOOLEAN, rt \in TextChoices, gt \in TextChoices,
     role \in {Undef, Str("teacher")}}
InsightsRequests ==
  {InsightsRequest(skills, role, Undef, Undef, Undef) :
     skills \in {Undef, Str("python,ml")}, role \in {Undef, Str("teacher")}}
PromptRequests ==
  {PromptRequest(prompt, temperature, Undef) :
     prompt \in {Undef, Null, Str(""), Str("  "), Str("Say hi"), Num("5")},
     temperature \in {Undef, Num("0")}}
TrendRows == {<<>>, <<SkillRow("python", 9), SkillRow("rust", 4)>>}
ArticleCounts == {0, 12}
RoadmapRequests ==
  {RoadmapRequest(roadmapName, title, role, skills, Undef, Undef) :
     roadmapName \in {Undef, Null, Str(""), Str(" "), Str("Data Engineer"), Num("5")},
     title \in {Undef, Str(""), Str(" ML Engineer ")},
     role \in {Undef, Str("  "), Str("teacher")},
     skills \in {Undef, Str("sql, ,python")}}
TrendsRequests ==
  {TrendsRequest(days, format, limit) :
     days \in {Undef, Str("30")},
     format \in {Undef, Str("card"), Str("raw"), Str("RAW")},
     limit \in {Undef, Str("1"), Str("50"), Str("0"), Str("many")}}
\* the texts generateContent returns: parseResponse has trimmed them
ModelTexts ==
  {"Plan: learn Rust", "", "Python\n+4%\n\nRust\n+2%\n \nGo",
   "{\"roadmapData\":{\"title\":\"Data Engineer\",\"phases\":[]},\"certifications\":[{\"name\":\"GCP\"}]}",
   "Sure: {\"roadmapData\": {\"completionRate\": 40}} Done.",
   "{\"roadmapData\":{\"title\":\"Data",
   "{}", "{\"certifications\":[]}", "{\"roadmapData\":null}", "[1, 2]", "null", "12"}
ModelResults ==
  {MkResult(Str(text), Str("STOP"), Undef, UndefResp) : text \in ModelTexts}
  \cup {MkResult(Str(""), Str("MAX_TOKENS"), Undef, UndefResp)}
ModelErrors == {NewError(MsgRateLimit), NewError("Vertex AI API error (500): Internal")}
NewsErrors == {NewError("timeout of 5000ms exceeded")}
TokenErrors == {NewError(MsgBadCredentials), NewError(MsgProvider)}

NextServices ==
  \/ \E req \in OverviewRequests, wh \in Warehouses : OverviewStart(req, wh)
  \/ \E i \in 1..9 : QueryResolve(i)
  \/ \E i \in FailingQueries : \E error \in WarehouseErrors(i) : QueryReject(i, error)
  \/ \E req \in SynthesisRequests : SynthesisStart(req)
  \/ \E req \in InsightsRequests : InsightsStart(req)
  \/ \E rows \in TrendRows : TrendsResolve(rows)
  \/ TrendsReject
  \/ \E count \in ArticleCounts : CountResolve(count)
  \/ CountReject
  \/ \E req \in PromptRequests : PromptStart(req)
  \/ \E req \in RoadmapRequests : RoadmapStart(req)
  \/ \E req \in TrendsRequests : CardsStart(req)
  \/ \E rows \in TrendRows : CardsRowsResolve(rows)
  \/ \E error \in WarehouseErrors(1) : CardsRowsReject(error)
  \/ \E ai \in ModelResults : ModelReturn(ai)
  \/ \E error \in ModelErrors : ModelThrow(error)
  \/ StatusStart
  \/ \E count \in ArticleCounts : BigqueryCheckResolve(count)
  \/ \E error \in WarehouseErrors(1) : BigqueryCheckReject(error)
  \/ \E isValid \in BOOLEAN : NewsapiCheckResolve(isValid)
  \/ \E error \in NewsErrors : NewsapiCheckReject(error)
  \/ VertexaiCheckResolve
  \/ \E error \in TokenErrors : VertexaiCheckReject(error)

NextOverviewArgs ==
  \E req \in ArgRequests, wh \in Warehouses : OverviewStart(req, wh)

----------------------------------------------------------------------------
(* The shaping helpers as pure functions *)

\* the argument of a helper: fn names it, a and b are values for its
\* parameter and clock is Date.now()
HelperInput(fn, a, b, clock) == [fn |-> fn, a |-> a, b |-> b, clock |-> clock]

\* Date.now() of the applications of toRelativeTime
Clocks == {DateParse("2026-11-06T12:00:00.250Z"), DateParse("2027-03-01T00:00:00Z")}

\* the Date that lies sec seconds and ms milliseconds before clock
Before(clock, sec, ms) ==
  DateAt(clock.sec - sec - (IF ms > clock.ms THEN 1 ELSE 0), (clock.ms - ms) % 1000)

\* elapsed times, in seconds and milliseconds, around the thresholds
Elapsed ==
  {<<0, 0>>, <<0, 999>>, <<59, 999>>, <<60, 0>>, <<3599, 999>>, <<3600, 0>>,
   <<86399, 0>>, <<86400, 0>>, <<2591999, 999>>, <<2592000, 0>>, <<5184000, 0>>,
   <<31103999, 0>>, <<31104000, 0>>, <<62207999, 0>>, <<62208000, 0>>,
   <<315360000, 0>>}

\* values of published_at other than Dates
DateTexts ==
  {Undef, Null, Str(""), Str("yesterday"), Str("2026-13-01T00:00:00Z"),
   Str("2026-11-06T11:59:00Z"), Str("2026-11-05"), Str("1999-12-31T23:59:59.999Z"),
   Str("2027-06-01T00:00:00Z")}

DateLikes(clock) == {Before(clock, e[1], e[2]) : e \in Elapsed} \cup DateTexts

\* the tag lists of the rows: up to two tags of pool, and values that are
\* not a list
TagLists(pool) ==
  {ArrayOf(<<>>)} \cup {ArrayOf(<<x>>) : x \in pool}
  \cup {ArrayOf(<<x, y>>) : x \in pool, y \in pool}
RegionTags ==
  {"us", "USA", "america", "India", "eu", "europe", "UK", "britain",
   "business", "training", "remote-work", "policy"}
CategoryTags ==
  {"AI", "ml-ops", "genai", "LLM", "cloud", "AWS", "cyber-security", "big_data",
   "systems-programming", "html", "DevOps", ".net_core"}
NotALists == {Undef, Null, Str("ai us")}

HelperInputs ==
  {HelperInput("toRelativeTime", a, b, clock) :
     a \in UNION {DateLikes(c) : c \in Clocks}, b \in UNION {DateLikes(c) : c \in Clocks},
     clock \in Clocks}
  \cup {HelperInput("inferRegion", tags, Undef, Undef) :
          tags \in TagLists(RegionTags) \cup NotALists}
  \cup {HelperInput("inferCategory", tags, Undef, Undef) :
          tags \in TagLists(CategoryTags) \cup NotALists}

\* a parameter default: tags = []
TagsParam(tags) == IF tags.k = "undef" THEN ArrayOf(<<>>) ELSE tags

\* toRelativeTime applied to a and to b at the same instant
RelativeTimeApply ==
  /\ hIn.fn = "toRelativeTime" /\ hOut = <<>>
  /\ hOut' = <<toRelativeTime(hIn.a, hIn.clock), toRelativeTime(hIn.b, hIn.clock)>>
  /\ UNCHANGED <<hIn, genVars, tokVars, parseVars, kwVars, svcVars>>

\* inferRegion applied to the tags, and formatPolicyItem to a row with them
RegionApply ==
  /\ hIn.fn = "inferRegion" /\ hOut = <<>>
  /\ hOut' = <<inferRegion(TagsParam(hIn.a)),
               formatPolicyItem([ArticleVisa EXCEPT !.tags = hIn.a]).region>>
  /\ UNCHANGED <<hIn, genVars, tokVars, parseVars, kwVars, svcVars>>

\* inferCategory applied to the tags
CategoryApply ==
  /\ hIn.fn = "inferCategory" /\ hOut = <<>>
  /\ hOut' = <<inferCategory(TagsParam(hIn.a))>>
  /\ UNCHANGED <<hIn, genVars, tokVars, parseVars, kwVars, svcVars>>

NextHelpers == RelativeTimeApply \/ RegionApply \/ CategoryApply

----------------------------------------------------------------------------
(* Specifications *)


\* one invocation of generateContent against the provider
Init == GenInit /\ TokIdle /\ ParseIdle /\ KwIdle /\ SvcIdle /\ HelperIdle
Spec == Init /\ [][Next]_vars

\* non-overlapping getAccessToken calls against the credential provider
InitToken ==
  /\ TokIdle /\ GEN_MODEL = Fallback1 /\ GenIdle /\ ParseIdle /\ KwIdle /\ SvcIdle
  /\ HelperIdle
SpecToken == InitToken /\ [][NextToken]_vars

\* overlapping getAccessToken calls against the credential provider
SpecTokenConcurrent == InitToken /\ [][NextTokenConcurrent]_vars

\* parseResponse applied to every response shape
InitParse ==
  /\ pIn \in ParseInputs /\ pOut = NoOutcome
  /\ GEN_MODEL = Fallback1 /\ GenIdle /\ TokIdle /\ KwIdle /\ SvcIdle /\ HelperIdle
NextParse == ParseApply
SpecParse == InitParse /\ [][NextParse]_vars

\* the keyword sets of getOverview for every request
InitKeywords ==
  /\ kReq \in Requests /\ kOut = NoKeywords
  /\ GEN_MODEL = Fallback1 /\ GenIdle /\ TokIdle /\ ParseIdle /\ SvcIdle /\ HelperIdle
NextKeywords == OverviewKeywords
SpecKeywords == InitKeywords /\ [][NextKeywords]_vars

\* one request to one of the routes overview, synthesis, insights and prompt
InitServices ==
  /\ SvcIdle /\ GEN_MODEL = Fallback1 /\ GenIdle /\ TokIdle /\ ParseIdle /\ KwIdle
  /\ HelperIdle
SpecServices == InitServices /\ [][NextServices]_vars

\* getOverview up to its queries, for every days and limit of a request
SpecOverviewArgs == InitServices /\ [][NextOverviewArgs]_vars

\* the shaping helpers applied to every argument
InitHelpers ==
  /\ hIn \in HelperInputs /\ hOut = <<>>
  /\ GEN_MODEL = Fallback1 /\ GenIdle /\ TokIdle /\ ParseIdle /\ KwIdle /\ SvcIdle
SpecHelpers == InitHelpers /\ [][NextHelpers]_vars

----------------------------------------------------------------------------
(* Claims about generateContent, checked under Spec *)

GenStarted == gpc # "idle"
LastAttempt == gAttempts[Len(gAttempts)]

\* the error carries HTTP status 404, as error.code or as error.response.status
Carries404(error) ==
  error.code = Num("404") \/ (error.hasResp /\ error.status = Num("404"))

\* every candidate has been tried and every attempt ended in a 404
Exhausted ==
  /\ gpc = "thrown"
  /\ Len(gAttempts) = Len(gCands)
  /\ \A i \in 1..Len(gAttempts) : Carries404(gAttempts[i].error)

\* C1: generateContent tries the candidates strictly in list order, one call
\* in flight at a time and each at most once; every provider error carrying
\* HTTP status 404 (as error.code or as error.response.status) advances to
\* the next candidate, a success returns at once, and any non-404 error aborts
\* at once.  The code reads error.code first, so an error with another truthy
\* code and response.status 404 aborts: the statement fails on the code.
C1_TriesInOrderUntilNon404 ==
  /\ Len(gAttempts) <= Len(gCands)
  /\ \A i \in 1..Len(gAttempts) :
       /\ gAttempts[i].model = gCands[i]
       /\ i < Len(gAttempts) =>
            gAttempts[i].out = "error" /\ Carries404(gAttempts[i].error)
       /\ (gAttempts[i].out = "error" /\ Carries404(gAttempts[i].error)
             /\ i < Len(gCands)) => Len(gAttempts) > i
       /\ gAttempts[i].out = "ok" => i = Len(gAttempts) /\ gpc = "returned"
       /\ (gAttempts[i].out = "error" /\ ~Carries404(gAttempts[i].error)) =>
            i = Len(gAttempts) /\ gpc = "thrown"
       /\ gAttempts[i].out = "pending" => i = Len(gAttempts) /\ gpc = "awaiting"

\* the only error the code builds for "no model was usable"
MsgNoUsableModel == "Model not found"

\* C2 as stated: when every candidate answered 404, the error raised is one
\* aggregated "no usable model" error, not the last provider error alone.
C2_AggregatedError ==
  Exhausted => gOutcome.error.message = MsgNoUsableModel

\* the classification C6 states, written out from the claim
Classified(error) ==
  IF error.hasResp
  THEN IF error.status = Num("401") THEN NewError(MsgAuth)
       ELSE IF error.status = Num("403") THEN NewError(MsgPermission)
       ELSE IF error.status = Num("429") THEN NewError(MsgRateLimit)
       ELSE NewError("Vertex AI API error (" \o ToText(error.status) \o "): "
                     \o (IF Truthy(error.dataMsg) THEN error.dataMsg.s ELSE error.message))
  ELSE IF error.code = Str("ENOTFOUND") THEN NewError(MsgNetwork)
  ELSE IF error.code = Str("ECONNABORTED") THEN NewError(MsgTimeout)
  ELSE error

\* C2 as amended: when every candidate answered 404, the error raised is the
\* classification of the last candidate's 404 error alone (a generic provider
\* error with status 404 when it has a response, else that error unchanged).
C2_LastErrorClassified ==
  Exhausted =>
    /\ gOutcome.error = Classified(gAttempts[Len(gCands)].error)
    /\ gOutcome.error.message # MsgNoUsableModel

C2_Witness ==
  /\ Exhausted
  /\ gAttempts[Len(gCands)].error.hasResp
  /\ gOutcome.error.message =
       "Vertex AI API error (404): Request failed with status code 404"

\* the part of a name that C3 calls a trailing 3-digit version suffix
EndsInVersion(name) ==
  /\ Len(name) >= 4
  /\ SubSeq(name, Len(name) - 3, Len(name) - 3) = "-"
  /\ \A back \in 0..2 : SubSeq(name, Len(name) - back, Len(name) - back) \in Digits

\* C3: the candidate list is the preferred name, then its "-002" variant when
\* the name has no trailing 3-digit version suffix (none when it has one),
\* then the three fallbacks, without duplicates, first occurrences in order.
C3_CandidateList ==
  GenStarted =>
    LET base == GEN_MODEL
        head == IF EndsInVersion(base) THEN <<base>> ELSE <<base, base \o "-002">>
        rest == SelectSeq(<<Fallback1, Fallback2, Fallback3>>,
                          LAMBDA f : \A i \in 1..Len(head) : head[i] # f)
    IN  /\ gCands = head \o rest
        /\ gCands[1] = base
        /\ \A i \in 1..Len(gCands), j \in 1..Len(gCands) :
             i # j => gCands[i] # gCands[j]
        /\ (~EndsInVersion(base) /\ Len(rest) = 3) =>
             gCands = <<base, base \o "-002", Fallback1, Fallback2, Fallback3>>
        /\ EndsInVersion(base) => \A i \in 1..Len(gCands) : gCands[i] # base \o "-002"

C3_Witness ==
  /\ GenStarted
  /\ GEN_MODEL = "foo"
  /\ gCands = <<"foo", "foo-002", "gemini-2.5-flash", "gemini-1.5-flash-002",
                "gemini-1.5-flash">>

\* C6: every error generateContent throws is the classification of the
\* provider error that ended it: response status 401, 403, 429 give the
\* authentication, permission and rate-limit errors, any other response status
\* the generic provider error with status and message; without a response,
\* ENOTFOUND gives the network error and ECONNABORTED the timeout error; any
\* other error is thrown unchanged.
C6_ThrownIsClassified ==
  gpc = "thrown" =>
    /\ LastAttempt.out = "error"
    /\ gOutcome.error = Classified(LastAttempt.error)
    /\ \/ gOutcome.error.message \in {MsgAuth, MsgPermission, MsgRateLimit,
                                      MsgNetwork, MsgTimeout}
       \/ LastAttempt.error.hasResp
            /\ SubSeq(gOutcome.error.message, 1, Len(MsgApiPrefix)) = MsgApiPrefix
       \/ gOutcome.error = LastAttempt.error

C6_Witness ==
  /\ gpc = "thrown"
  /\ LastAttempt.error.status = Num("429")
  /\ gOutcome.error = NewError(MsgRateLimit)

\* an option is given when it is neither undefined nor null
Given(v) == v.k \notin {"undef", "null"}

C8_SamplingAndSafety(request) ==
  /\ request.temperature =
       IF Given(gOptions.temperature) THEN gOptions.temperature ELSE Num("0.7")
  /\ request.topP = IF Given(gOptions.topP) THEN gOptions.topP ELSE Num("0.8")
  /\ request.topK = IF Given(gOptions.topK) THEN gOptions.topK ELSE Num("40")
  /\ Len(request.safetySettings) = 2
  /\ request.safetySettings[1] =
       [category |-> "HARM_CATEGORY_HARASSMENT", threshold |-> "BLOCK_MEDIUM_AND_ABOVE"]
  /\ request.safetySettings[2] =
       [category |-> "HARM_CATEGORY_HATE_SPEECH", threshold |-> "BLOCK_MEDIUM_AND_ABOVE"]

\* C8 as stated: every request uses temperature, topP, topK from the options
\* when given (0 included), else 0.7, 0.8, 40; its output-token limit is the
\* caller's maxOutputTokens or maxTokens when either is given, else 1024; the
\* two safety thresholds are on every request.
C8_EitherTokenOption ==
  \A i \in 1..Len(gAttempts) :
    LET request == gAttempts[i].request
    IN  /\ C8_SamplingAndSafety(request)
        /\ request.maxOutputTokens =
             IF Given(gOptions.maxOutputTokens) /\ ~Given(gOptions.maxTokens)
               THEN gOptions.maxOutputTokens
             ELSE IF Given(gOptions.maxTokens) /\ ~Given(gOptions.maxOutputTokens)
               THEN gOptions.maxTokens
             ELSE IF Given(gOptions.maxTokens) /\ Given(gOptions.maxOutputTokens)
               THEN request.maxOutputTokens
             ELSE Num("1024")
        /\ (Given(gOptions.maxTokens) /\ Given(gOptions.maxOutputTokens)) =>
             request.maxOutputTokens \in {gOptions.maxTokens, gOptions.maxOutputTokens}

\* C8 as amended: the output-token limit is the caller's maxTokens option when
\* given, else 1024; an option named maxOutputTokens is not read.
C8_MaxTokensOnly ==
  \A i \in 1..Len(gAttempts) :
    LET request == gAttempts[i].request
    IN  /\ C8_SamplingAndSafety(request)
        /\ request.maxOutputTokens =
             IF Given(gOptions.maxTokens) THEN gOptions.maxTokens ELSE Num("1024")

C8_Witness ==
  /\ Len(gAttempts) >= 2
  /\ gOptions.temperature = Num("0")
  /\ gOptions.maxOutputTokens = Num("512")
  /\ gOptions.maxTokens = Undef
  /\ \A i \in 1..Len(gAttempts) :
       /\ gAttempts[i].request.temperature = Num("0")
       /\ gAttempts[i].request.maxOutputTokens = Num("1024")

----------------------------------------------------------------------------
(* Claims about getAccessToken, checked under SpecToken *)

FiftyFiveMinutes == 55 * 60 * 1000

\* the call of p began less than 55 minutes after the last successful fetch
BeganFresh(p) ==
  tCall[p].lastOkAt >= 0 /\ tCall[p].startAt < tCall[p].lastOkAt + FiftyFiveMinutes

\* C4: for non-overlapping calls, a call made less than 55 minutes after the
\* last successful fetch returns the cached token without calling the
\* credential provider; a call made with no token cached, or at or after the
\* cached expiry, calls the credential provider exactly once.
C4_FetchOnlyWhenStale ==
  \A p \in Callers :
    tpc[p] # "idle" =>
      /\ BeganFresh(p) =>
           /\ tpc[p] = "returned"
           /\ tCall[p].clientCalls = 0 /\ tCall[p].tokenCalls = 0
           /\ tCall[p].result = tCall[p].lastOkToken
      /\ ~BeganFresh(p) =>
           /\ tCall[p].clientCalls = 1
           /\ tCall[p].tokenCalls <= 1
           /\ tpc[p] \in {"token", "returned"} => tCall[p].tokenCalls = 1
           /\ tpc[p] = "returned" =>
                /\ tCall[p].result = accessToken
                /\ tokenExpiry = ExpiryAt(tHist.lastOkAt + FiftyFiveMinutes)

\* a call at the very instant of expiry fetched again, after an earlier call
\* had been served from the cache
C4_Witness ==
  \E p \in Callers :
    /\ tpc[p] = "returned"
    /\ tCall[p].lastOkAt >= 0
    /\ tCall[p].startAt = tCall[p].lastOkAt + FiftyFiveMinutes
    /\ tCall[p].clientCalls = 1 /\ tCall[p].tokenCalls = 1

\* C5: when the credential fetch fails, the call raises an error and leaves
\* accessToken and tokenExpiry as they were before the call, and the next
\* call attempts a fetch again.
C5_FailedFetchKeepsCache ==
  \A p \in Callers :
    /\ tpc[p] = "thrown" =>
         /\ tCall[p].error # ""
         /\ accessToken = tCall[p].sawToken
         /\ tokenExpiry = tCall[p].sawExpiry
    /\ (tpc[p] # "idle" /\ tCall[p].afterFailure) => tCall[p].clientCalls = 1

\* a call after a failed fetch fetches again, the expired token still cached
C5_Witness ==
  \E p \in Callers :
    /\ tpc[p] = "thrown"
    /\ tCall[p].afterFailure
    /\ tCall[p].sawToken # Null
    /\ accessToken = tCall[p].sawToken
    /\ tCall[p].clientCalls = 1

----------------------------------------------------------------------------
(* Claims about parseResponse, checked under SpecParse *)

\* t is s without its leading and trailing white space
IsTrimOf(t, s) ==
  /\ \E a \in 0..Len(s), b \in 0..Len(s) :
       /\ a + b <= Len(s)
       /\ \A i \in 1..a : SubSeq(s, i, i) \in {" ", "\n"}
       /\ \A i \in (Len(s) - b + 1)..Len(s) : SubSeq(s, i, i) \in {" ", "\n"}
       /\ t = SubSeq(s, a + 1, Len(s) - b)
  /\ t # "" => /\ SubSeq(t, 1, 1) \notin {" ", "\n"}
               /\ SubSeq(t, Len(t), Len(t)) \notin {" ", "\n"}

\* the first candidate of the response has at least one content part
FirstCandidateHasParts(rd) ==
  /\ rd.k = "obj" /\ rd.cands.k = "arr" /\ Len(rd.cands.items) > 0
  /\ rd.cands.items[1].k = "obj"
  /\ rd.cands.items[1].content.k = "obj"
  /\ rd.cands.items[1].content.parts.k = "arr"
  /\ Len(rd.cands.items[1].content.parts.items) > 0

\* the texts of the first candidate's parts, a part without text counting as ""
FirstCandidateTexts(rd) ==
  LET parts == rd.cands.items[1].content.parts.items
  IN  [i \in 1..Len(parts) |-> IF parts[i].text.k = "str" THEN parts[i].text.s ELSE ""]

\* reading a part throws: the model's only cause of an exception in parsing
ParsingThrows(rd) ==
  /\ FirstCandidateHasParts(rd)
  /\ \E i \in 1..Len(rd.cands.items[1].content.parts.items) :
       rd.cands.items[1].content.parts.items[i].k = "null"

\* what C7 says of every result, the text of the success case put together
\* with the separator sep
C7_Normalized(sep) ==
  pOut.k = "value" =>
    LET r == pOut.value
    IN  /\ DOMAIN r = {"text", "finishReason", "safetyRatings", "raw"}
        /\ r.raw = pIn
        /\ IF ParsingThrows(pIn)
           THEN r.text = Str("Error parsing AI response") /\ r.finishReason = Str("ERROR")
           ELSE IF FirstCandidateHasParts(pIn)
           THEN /\ r.text.k = "str"
                /\ IsTrimOf(r.text.s, Join(FirstCandidateTexts(pIn), sep))
                /\ r.finishReason = pIn.cands.items[1].finishReason
                /\ r.safetyRatings = pIn.cands.items[1].safetyRatings
           ELSE /\ r.text = JsonStringify(pIn)
                /\ r.finishReason = Str("UNKNOWN")
                /\ pIn = NullResp => r.text = Str("null")
                /\ pIn = RespOf(CandsOf(<<>>)) => r.text = Str("{\"candidates\":[]}")

\* C7 as stated: parseResponse never raises and always returns text,
\* finishReason, safetyRatings and raw; a first candidate with at least one
\* content part yields its part texts concatenated and trimmed with its
\* finishReason; any other shape the stringified raw response with "UNKNOWN";
\* an exception during parsing the fixed error text with "ERROR".
C7_TextsConcatenated == C7_Normalized("")

\* C7 as amended: the part texts are joined with a newline between
\* consecutive parts, and the joined text is trimmed.
C7_TextsJoinedByNewline == C7_Normalized("\n")

C7_Witness ==
  /\ pOut.k = "value"
  /\ FirstCandidateHasParts(pIn)
  /\ FirstCandidateTexts(pIn) = <<"a", " b\n">>
  /\ pOut.value.text = Str("a\n b")
  /\ pOut.value.finishReason = Str("STOP")

----------------------------------------------------------------------------
(* Claims about the keyword sets, checked under SpecKeywords *)

\* the override strings of the requests, each with its trimmed, lowercased,
\* non-empty comma-separated tokens in their given order
OverrideTokens(override) ==
  CASE override = "student visa,H1B,OPT" -> <<"student visa", "h1b", "opt">>
    [] override = "Rust,,rust" -> <<"rust", "rust">>
    [] override = "Go" -> <<"go">>
    [] override = "GDPR, gdpr ,HIPAA" -> <<"gdpr", "gdpr", "hipaa">>
    [] override = "Quantum , edge" -> <<"quantum", "edge">>
    [] override =
         "k1,k2,k3,k4,k5,k6,k7,k8,k9,k10,k11,k12,k13,k14,k15,k16,k17,k18,k19,k20,k21" ->
         <<"k1", "k2", "k3", "k4", "k5", "k6", "k7", "k8", "k9", "k10", "k11", "k12",
           "k13", "k14", "k15", "k16", "k17", "k18", "k19", "k20", "k21">>
    [] OTHER -> <<>>

\* the general override of a request: query, or q when query is absent
GeneralOverride(req) == IF req.query # "" THEN req.query ELSE req.q

\* list holds only members of tokens, in their order in tokens
RECURSIVE InGivenOrder(_, _)
InGivenOrder(list, tokens) ==
  IF Len(list) = 0 THEN TRUE
  ELSE IF Len(tokens) = 0 THEN FALSE
  ELSE IF list[1] = tokens[1] THEN InGivenOrder(Tail(list), Tail(tokens))
  ELSE InGivenOrder(list, Tail(tokens))

\* an override with tokens decides the keyword set alone
OnlyOverride(list, override) ==
  OverrideTokens(override) # <<>> =>
    /\ list # <<>>
    /\ InGivenOrder(list, OverrideTokens(override))
    /\ \A i \in 1..Len(OverrideTokens(override)) :
         i <= 20 => \E j \in 1..Len(list) : list[j] = OverrideTokens(override)[i]

\* C9: for each keyword purpose (general via query/q, policy, emerging), an
\* override that names at least one keyword decides the keyword set alone:
\* the set holds only the override's trimmed, lowercased, non-empty tokens in
\* their given order, whatever role, skills and interests are.
C9_OverrideTakesPrecedence ==
  kOut.done =>
    /\ OnlyOverride(kOut.keywords, GeneralOverride(kReq))
    /\ OnlyOverride(kOut.policyKeywords, kReq.policy)
    /\ OnlyOverride(kOut.emergingKeywords, kReq.emerging)
    /\ GeneralOverride(kReq) = "student visa,H1B,OPT" =>
         kOut.keywords = <<"student visa", "h1b", "opt">>

C9_Witness ==
  /\ kOut.done
  /\ kReq.query = "student visa,H1B,OPT"
  /\ kReq.role = "data scientist" /\ kReq.skills = "python,ml"
  /\ kReq.interests = "healthcare,cloud"
  /\ kOut.keywords = <<"student visa", "h1b", "opt">>
  /\ kOut.policyKeywords = <<"gdpr", "hipaa">>
  /\ kOut.emergingKeywords = <<"quantum", "edge">>

\* the string yields no token when split at the characters of seps
YieldsNoToken(s, seps) ==
  \A i \in 1..Len(s) : SubSeq(s, i, i) \in seps \cup {" ", "\n"}

\* C10: for every request the policy and the emerging keyword sets are
\* non-empty; the general keyword set is empty exactly when query, skills,
\* interests and role all yield no tokens.
C10_BaselinesNeverEmpty ==
  kOut.done =>
    /\ kOut.policyKeywords # <<>>
    /\ kOut.emergingKeywords # <<>>
    /\ kOut.keywords = <<>> <=>
         /\ YieldsNoToken(GeneralOverride(kReq), {","})
         /\ YieldsNoToken(kReq.skills, {","})
         /\ YieldsNoToken(kReq.interests, {","})
         /\ YieldsNoToken(kReq.role, {})

\* every override is present and none names a keyword
C10_Witness ==
  /\ kOut.done
  /\ kReq.query = " , " /\ kReq.policy = "," /\ kReq.emerging = " ,, "
  /\ kReq.role = "" /\ kReq.skills = "" /\ kReq.interests = ""
  /\ kOut.keywords = <<>>
  /\ Len(kOut.policyKeywords) = 24
  /\ Len(kOut.emergingKeywords) = 30

\* list holds the term
Holds(list, term) == \E i \in 1..Len(list) : list[i] = term

CaseFoldedDistinct(list) ==
  \A i \in 1..Len(list), j \in 1..Len(list) :
    i # j => toLowerCase(list[i]) # toLowerCase(list[j])

\* C12: every keyword set (general, policy, emerging; derived or from an
\* override) is deduplicated under case folding.  The general override is
\* never deduplicated and the derived general terms are deduplicated before
\* any case folding, so the statement fails on the code.
C12_DeduplicatedCaseFolded ==
  kOut.done =>
    /\ CaseFoldedDistinct(kOut.keywords)
    /\ CaseFoldedDistinct(kOut.policyKeywords)
    /\ CaseFoldedDistinct(kOut.emergingKeywords)

\* C13: with no policy override the policy keyword set holds the whole
\* curated baseline and the lowercased interest and role tokens (role "data
\* scientist" gives "data" and "scientist").  The baseline alone has 25 terms
\* and the set is cut at 24, so the statement fails on the code.
C13_PolicyBaselineAndProfile ==
  (kOut.done /\ YieldsNoToken(kReq.policy, {","})) =>
    /\ \A i \in 1..Len(policyBase) : Holds(kOut.policyKeywords, policyBase[i])
    /\ kReq.role = "data scientist" =>
         Holds(kOut.policyKeywords, "data") /\ Holds(kOut.policyKeywords, "scientist")
    /\ kReq.interests = "healthcare,cloud" =>
         Holds(kOut.policyKeywords, "healthcare") /\ Holds(kOut.policyKeywords, "cloud")

\* C14: with no emerging override a role matching a row of the role table
\* puts that row's keywords into the emerging keyword set: "data scientist"
\* gives genai, llm, vector databases, retrieval, rag and agents; a role
\* containing "security" gives zero trust, ai security and supply chain
\* security.  The 74 defaults come first and the set is cut at 30, so the
\* statement fails on the code.
C14_RoleKeywordsInEmerging ==
  (kOut.done /\ YieldsNoToken(kReq.emerging, {","})) =>
    /\ kReq.role = "data scientist" =>
         \A term \in {"genai", "llm", "vector databases", "retrieval", "rag", "agents"} :
           Holds(kOut.emergingKeywords, term)
    /\ kReq.role = "  Security  Lead " =>
         \A term \in {"zero trust", "ai security", "supply chain security"} :
           Holds(kOut.emergingKeywords, term)

----------------------------------------------------------------------------
(* Claims on the service operations *)

OverviewServed == svcOp = "overview"
QueryIn(state) == {i \in 1..Len(oQueries) : oQueries[i].state = state}

IsPositiveInteger(x) == ~x.nan /\ x.n % Pow10(x.scale) = 0 /\ x.n >= Pow10(x.scale)

\* C16: for every days and limit of a request (absent, zero, negative,
\* fractional, non-numeric) the days and limit arguments of every query are
\* integers >= 1, queries 5, 6 and 7 receive min(limit, 10) and query 8
\* receives 5.  Number(x) || 7 keeps negative and fractional values, so the
\* statement fails on the code.
C16_DaysAndLimitSanitized ==
  OverviewServed =>
    /\ \A i \in 1..Len(oQueries) :
         /\ IsPositiveInteger(oQueries[i].daysPast)
         /\ oQueries[i].hasLimit => IsPositiveInteger(oQueries[i].limit)
    /\ \A i \in {5, 6, 7} :
         oQueries[i].limit = IF oQueries[1].limit.n <= 10 * Pow10(oQueries[1].limit.scale)
                             THEN oQueries[1].limit ELSE JsNum(10, 0)
    /\ oQueries[8].limit = JsNum(5, 0)

\* the overview document was delivered
DocumentDelivered == OverviewServed /\ svcOutcome.k = "value"

\* the rows of queries 1, 2, 7, 8 and 9 stand unmodified in their sections
PassedThrough(doc) ==
  /\ doc.overview.trendingSkills.general = warehouse[1]
  /\ doc.overview.trendingSkills.personalized = warehouse[2]
  /\ doc.overview.emergingTechnologies = warehouse[7]
  /\ doc.overview.marketInsights.topSources = warehouse[8]
  /\ doc.overview.marketInsights.volumeByDay = warehouse[9]

\* the sections of the document that hold source rows
SourceSections(doc) == {doc.overview.marketInsights.topSources}

\* C17 as stated: when all nine queries succeed the rows of queries 1, 2, 4,
\* 7, 8 and 9 are in the document unmodified, each under its own section,
\* whatever the order of completion.
C17_SixPassThrough ==
  DocumentDelivered =>
    /\ PassedThrough(svcOutcome.value)
    /\ warehouse[4] \in SourceSections(svcOutcome.value)

\* C17 as amended: when all nine queries succeed the rows of queries 1, 2, 7,
\* 8 and 9 are in the document unmodified, each under its own section
\* (trendingSkills.general, trendingSkills.personalized, emergingTechnologies,
\* marketInsights.topSources, marketInsights.volumeByDay), whatever the order
\* of completion; the route answers with that document.
C17_FivePassThrough ==
  DocumentDelivered =>
    /\ PassedThrough(svcOutcome.value)
    /\ svcResp.status = 200 /\ svcResp.body = svcOutcome.value

\* all nine succeeded and the sources of queries 4 and 8 differ
C17_Witness ==
  /\ DocumentDelivered
  /\ QueryIn("resolved") = 1..9
  /\ Len(warehouse[4]) = 3 /\ Len(warehouse[8]) = 2
  /\ Len(svcOutcome.value.overview.marketInsights.topSources) = 2
  /\ Len(svcOutcome.value.overview.trendingSkills.general) = 2

\* C18: an overview request issues warehouse queries only: no call to the
\* generative model, no prompt, and the cached access token is neither set
\* nor cleared.
C18_OverviewCallsWarehouseOnly ==
  OverviewServed =>
    /\ \A k \in 1..Len(svcCalls) : svcCalls[k].svc = "bigquery"
    /\ svcPrompts = <<>>
    /\ gpc = "idle" /\ gAttempts = <<>>
    /\ accessToken = Null /\ tokenExpiry = NoExpiry
    /\ \A p \in Callers : tpc[p] = "idle"

C18_Witness ==
  /\ OverviewServed /\ svcPc = "done"
  /\ svcResp.status = 200
  /\ svcReq.text.role = "data scientist"
  /\ Len(svcCalls) = 9

\* a core operation was entered and has ended
CoreEnded ==
  /\ svcPc = "done" /\ svcOutcome.k # "none"
  /\ svcOp \in {"overview", "insights", "synthesis", "prompt"}

\* the request came through a route
ViaRoute == svcOp \in {"overview", "insights", "prompt"} \/ ~svcReq.direct

\* C19 as stated: every core operation (getOverview, generateCareerInsights,
\* synthesize, generateContent) returns a result with a boolean success in
\* every outcome, success = false with a message on failure, and never raises.
C19_CoreNeverRaises ==
  CoreEnded =>
    /\ svcOutcome.k = "value"
    /\ svcOutcome.value.success \in BOOLEAN

\* C19 as amended: getOverview, generateCareerInsights and synthesize return a
\* result with success = true or raise an error with a message; generateContent
\* returns a result without a success field or raises.  The routes overview,
\* insights, synthesis and prompt answer every outcome with a body that
\* carries a boolean success: true with status 200 when the operation
\* returned, false with the error's message and status 400 or 500 otherwise.
C19_RoutesAnswerUniformly ==
  svcPc = "done" /\ svcOp \in {"overview", "insights", "synthesis", "prompt"} =>
    /\ svcOutcome.k = "error" => svcOutcome.error.message # ""
    /\ svcOutcome.k = "value" =>
         IF svcOp = "prompt" THEN "success" \notin DOMAIN svcOutcome.value
         ELSE svcOutcome.value.success = TRUE
    /\ ViaRoute =>
         /\ svcResp.body.success \in BOOLEAN
         /\ svcResp.body.success <=> svcOutcome.k = "value"
         /\ svcResp.body.success => svcResp.status = 200
         /\ ~svcResp.body.success =>
              /\ svcResp.status \in {400, 500}
              /\ svcResp.body.error # ""
              /\ svcOutcome.k = "error" =>
                   svcResp.status = 500 /\ svcResp.body.error = svcOutcome.error.message

\* the model call of an insights request failed
C19_Witness ==
  /\ svcOp = "insights" /\ svcPc = "done"
  /\ svcOutcome.k = "error"
  /\ svcOutcome.error.message =
       "Insight generation failed: Rate limit exceeded. Please try again later."
  /\ svcResp.status = 500 /\ svcResp.body.success = FALSE

\* the text is missing or empty
NoText(v) == v \in {Undef, Null, Str("")}

\* C20: a synthesis request whose realTimeText and governmentText are both
\* empty fails with the validation error before any prompt is built and
\* without a model call (status 400 through the route); a request with at
\* least one of them non-empty builds exactly one prompt and issues exactly
\* one generateContent call.
C20_SynthesisValidatedFirst ==
  svcOp = "synthesis" =>
    IF NoText(svcReq.realTimeText) /\ NoText(svcReq.governmentText)
    THEN /\ svcPc = "done"
         /\ svcPrompts = <<>> /\ svcCalls = <<>>
         /\ IF svcReq.direct
            THEN svcOutcome.k = "error" /\ svcOutcome.error.message = MsgNoTexts
            ELSE /\ svcResp.status = 400 /\ svcResp.body.success = FALSE
                 /\ svcResp.body.error = MsgNoTexts
    ELSE /\ Len(svcPrompts) = 1 /\ svcPrompts[1].template = "synthesis"
         /\ Len(svcCalls) = 1
         /\ svcCalls[1].svc = "gemini" /\ svcCalls[1].fn = "generateContent"

\* both texts are empty strings in a request through the route
C20_Witness ==
  /\ svcOp = "synthesis" /\ ~svcReq.direct
  /\ svcReq.realTimeText = Str("") /\ svcReq.governmentText = Str("")
  /\ svcResp.status = 400
  /\ svcPrompts = <<>> /\ svcCalls = <<>>

----------------------------------------------------------------------------
(* POST /roadmap: validation and the parse of the model's text *)

\* the field is missing, empty or blank
Blank(v) == v.k \in {"undef", "null"} \/ (v.k = "str" /\ Trim(v.s) = "")

\* the field supplies a non-blank title
NonBlank(v) == v.k = "str" /\ Trim(v.s) # ""

\* the three aliased fields of the request in progress
TitleFields == <<svcReq.roadmapName, svcReq.title, svcReq.role>>

\* C21: a roadmap request whose roadmapName, title and role are all missing,
\* empty or blank is answered 400 with the validation error and without a
\* model call; a request in which at least one of the three supplies a
\* non-blank title is accepted and calls the model once.
C21_TitleFromAnyAlias ==
  svcOp = "roadmap" =>
    /\ (\A i \in 1..3 : Blank(TitleFields[i])) =>
         /\ svcPc = "done" /\ svcResp.status = 400
         /\ svcResp.body.error = MsgNoTitle
         /\ svcCalls = <<>>
    /\ (\E i \in 1..3 : NonBlank(TitleFields[i])) =>
         /\ Len(svcCalls) = 1
         /\ svcCalls[1].svc = "gemini" /\ svcCalls[1].fn = "generateContent"

\* the model call of a roadmap request returned
RoadmapReturned == svcOp = "roadmap" /\ svcPc = "done" /\ svcOutcome.k = "value"

\* the text of the result the model call returned
ModelText == svcLocals.ai.text.s

\* the text, cut from its first "{" to its last "}", is not JSON
Unparsable(text) == ~JsonParse(JsonCandidate(text)).ok

\* the answer is the parse failure with the text attached
AnswersParseFailure(text) ==
  /\ svcResp.status = 502
  /\ svcResp.body.success = FALSE
  /\ svcResp.body.error = MsgParseFailed
  /\ "raw" \in DOMAIN svcResp.body
  /\ svcResp.body.raw = text

\* C22 as stated: model text that cannot be parsed (from the first "{" to the
\* last "}") always yields the "Failed to parse model JSON" error carrying
\* the complete model text; never success, never without the text.
C22_ParseFailureCarriesRawText ==
  RoadmapReturned /\ Unparsable(ModelText) => AnswersParseFailure(ModelText)

\* C22 as amended: non-empty model text that cannot be parsed yields status
\* 502 with error "Failed to parse model JSON" and the complete model text as
\* raw; empty model text yields status 500 with error "Empty response from
\* model" and no raw field; neither is answered as success.
C22_NonEmptyParseFailureCarriesRawText ==
  RoadmapReturned /\ Unparsable(ModelText) =>
    IF ModelText = ""
    THEN /\ svcResp.status = 500
         /\ svcResp.body.success = FALSE
         /\ svcResp.body.error = MsgEmptyResponse
         /\ "raw" \notin DOMAIN svcResp.body
    ELSE AnswersParseFailure(ModelText)

\* the model's text broke off inside the object
C22_Witness ==
  /\ RoadmapReturned
  /\ ModelText = "{\"roadmapData\":{\"title\":\"Data"
  /\ svcResp.status = 502
  /\ svcResp.body.raw = ModelText

\* C30: every roadmap answer with success = true carries as roadmap the
\* roadmapData object of the model's parsed JSON; model text that is empty,
\* is not a JSON object, or is JSON without a roadmapData object is never
\* answered with success = true.
C30_SuccessCarriesRoadmapData ==
  svcOp = "roadmap" /\ svcPc = "done" /\ svcResp.body.success =>
    LET parsed == JsonParse(JsonCandidate(ModelText))
    IN  /\ RoadmapReturned
        /\ parsed.ok
        /\ parsed.v.k = "obj"
        /\ GetMember(parsed.v, "roadmapData").k = "obj"
        /\ svcResp.body.roadmap = GetMember(parsed.v, "roadmapData")

----------------------------------------------------------------------------
(* GET /trends: when the model is asked for cards *)

\* the calls of the request in progress to the generative model
ModelCalls == SelectSeq(svcCalls, LAMBDA c : c.svc = "gemini")

\* the trend query of a cards request has settled with rows
CardsRowsSettled ==
  svcOp = "cards" /\ svcPc # "rows" /\ svcCalls[1].out = "ok"

\* C23: in the trend-cards operation the model is called at most once per
\* request, and only after the trend query returned at least one row for a
\* format other than raw; when the query returns no row the answer is a
\* success with count 0 and an empty list (cards, or trends in the raw
\* format) and no model call is made.
C23_CardsAskModelOnlyForRows ==
  svcOp = "cards" =>
    /\ Len(ModelCalls) <= 1
    /\ svcCalls[1].svc = "bigquery" /\ svcCalls[1].fn = "queryTopTrends"
    /\ Len(ModelCalls) = 1 =>
         /\ svcCalls[1].out = "ok"
         /\ Len(svcLocals.trends) >= 1
         /\ CardsFormat(svcReq) # "raw"
         /\ svcCalls[2].svc = "gemini"
    /\ CardsRowsSettled /\ svcLocals.trends = <<>> =>
         /\ ModelCalls = <<>>
         /\ svcPc = "done" /\ svcResp.status = 200
         /\ svcResp.body.success = TRUE /\ svcResp.body.count = 0
         /\ IF CardsFormat(svcReq) = "raw" THEN svcResp.body.trends = <<>>
            ELSE svcResp.body.cards = <<>>

\* a cards request in the card format met an empty warehouse
C23_Witness ==
  /\ svcOp = "cards" /\ svcPc = "done"
  /\ svcReq.format = Undef
  /\ svcCalls = <<[svc |-> "bigquery", fn |-> "queryTopTrends", out |-> "ok"]>>
  /\ svcResp.body.cards = <<>> /\ svcResp.body.count = 0

----------------------------------------------------------------------------
(* The shaping helpers: relative time, region and category *)

\* a helper has been applied to its argument
Applied(fn) == hIn.fn = fn /\ hOut # <<>>

\* the units of a relative time, from the smallest bucket to the largest
Units ==
  <<"s ago", " minutes ago", " hours ago", " days ago", " months ago", " years ago">>

\* the N and the bucket of a relative time text
CountOf(text) == DigitsValue(SubSeq(text, 1, DigitsEnd(text, 1) - 1))
RankOf(text) == CHOOSE r \in 1..6 : Units[r] = SubSeq(text, DigitsEnd(text, 1), Len(text))

\* the seconds in a minute, an hour, a day, a month of 30 days and a year of
\* 12 such months
UnitSeconds == <<1, 60, 3600, 86400, 2592000, 31104000>>

\* the bucket of an elapsed time of e whole seconds by the thresholds
BucketOf(e) ==
  CHOOSE r \in 1..6 : e >= (IF r = 1 THEN 0 ELSE UnitSeconds[r])
                      /\ (r < 6 => e < UnitSeconds[r + 1])

\* d1 is an earlier instant than d2; d1 is not later than d2
Earlier(d1, d2) == d1.sec < d2.sec \/ (d1.sec = d2.sec /\ d1.ms < d2.ms)
NotLater(d1, d2) == ~Earlier(d2, d1)

\* the whole seconds from d to clock, d not being later than clock
WholeSeconds(d, clock) == clock.sec - d.sec - (IF clock.ms < d.ms THEN 1 ELSE 0)

\* values that are no timestamp
NotADate == {Undef, Str(""), Str("yesterday"), Str("2026-13-01T00:00:00Z")}

\* C24: toRelativeTime is monotonic in elapsed time: of two past timestamps
\* t1 < t2 evaluated at the same instant, the result for t1 denotes an
\* equal-or-larger bucket (seconds < minutes < hours < days < months <
\* years, and a greater-or-equal N within the same bucket) than the result
\* for t2, the buckets being cut at 60 s, 60 min, 24 h, 30 days and 12
\* months; a value that is no timestamp yields null.
C24_RelativeTimeMonotonic ==
  Applied("toRelativeTime") =>
    LET t == <<NewDate(hIn.a), NewDate(hIn.b)>>
        in == <<hIn.a, hIn.b>>
        past(i) == t[i] # InvalidDate /\ NotLater(t[i], hIn.clock)
    IN  /\ \A i \in 1..2 : in[i].k # "date" /\ in[i] \in NotADate => hOut[i] = Null
        /\ \A i \in 1..2 : past(i) =>
             /\ hOut[i].k = "str"
             /\ RankOf(hOut[i].s) = BucketOf(WholeSeconds(t[i], hIn.clock))
             /\ CountOf(hOut[i].s) =
                  WholeSeconds(t[i], hIn.clock) \div UnitSeconds[RankOf(hOut[i].s)]
        /\ past(1) /\ past(2) /\ Earlier(t[1], t[2]) =>
             \/ RankOf(hOut[1].s) > RankOf(hOut[2].s)
             \/ /\ RankOf(hOut[1].s) = RankOf(hOut[2].s)
                /\ CountOf(hOut[1].s) >= CountOf(hOut[2].s)

\* thirty days against one second less, at the same instant
C24_Witness ==
  /\ Applied("toRelativeTime")
  /\ hIn.a = Before(hIn.clock, 2592000, 0) /\ hIn.b = Before(hIn.clock, 2591999, 999)
  /\ hOut = <<Str("1 months ago"), Str("29 days ago")>>

\* the terms by which the tags name a region
RegionTerms ==
  [r \in {"United States", "India", "European Union", "United Kingdom"} |->
     CASE r = "United States" -> {"us", "usa", "america"}
       [] r = "India" -> {"india"}
       [] r = "European Union" -> {"eu", "europe"}
       [] r = "United Kingdom" -> {"uk", "britain"}]

\* some tag of the list holds one of the terms, whatever the case of its letters
Mentions(tags, terms) ==
  /\ tags.k = "arr"
  /\ \E i \in 1..Len(tags.items) : \E term \in terms :
       \E at \in 1..Len(tags.items[i]) :
         /\ at + Len(term) - 1 <= Len(tags.items[i])
         /\ toLowerCase(SubSeq(tags.items[i], at, at + Len(term) - 1)) = term

\* C25: inferRegion maps a tag list to the region its tags name: tags that
\* hold the terms of the United States only (us, usa, america) give "United
\* States", of India only "India", of the EU only (eu, europe) "European
\* Union", of the UK only (uk, britain) "United Kingdom", and tags that hold
\* no term of these regions give null; the region of a policy card is the
\* inferred region, or "Global" when it is null.
C25_RegionNamedByTags ==
  Applied("inferRegion") =>
    /\ \A r \in DOMAIN RegionTerms :
         /\ Mentions(hIn.a, RegionTerms[r])
         /\ \A o \in DOMAIN RegionTerms \ {r} : ~Mentions(hIn.a, RegionTerms[o])
         => hOut[1] = Str(r)
    /\ (\A r \in DOMAIN RegionTerms : ~Mentions(hIn.a, RegionTerms[r])) => hOut[1] = Null
    /\ hOut[2] = IF hOut[1] = Null THEN Str("Global") ELSE hOut[1]

\* position i of the tag opens a word: a word character that no word
\* character precedes since the last '-', '_' or white space
OpensWord(tag, i) ==
  /\ IsWordChar(CharAt(tag, i)) /\ CharAt(tag, i) # "_"
  /\ \A j \in 1..(i - 1) :
       (\A h \in j..(i - 1) : CharAt(tag, h) \notin WhiteSpace \cup {"-", "_"})
       => ~(IsWordChar(CharAt(tag, j)) /\ CharAt(tag, j) # "_")

\* text is the tag title-cased, '-' and '_' replaced by spaces
IsTitleOf(text, tag) ==
  /\ Len(text) = Len(tag)
  /\ \A i \in 1..Len(tag) :
       CharAt(text, i) =
         IF CharAt(tag, i) \in {"-", "_"} THEN " "
         ELSE IF OpensWord(tag, i) THEN UpperChar(CharAt(tag, i))
         ELSE CharAt(tag, i)

\* C26: inferCategory classifies every tag list, the first match winning: a
\* tag with an AI/ML term gives "AI/ML" even if cloud, security or data
\* terms are present; else a cloud-provider term gives "Cloud"; else a
\* security term "Security"; else "data" gives "Data"; else the category is
\* the first tag title-cased with '-' and '_' replaced by spaces; no tags or
\* a value that is not a list gives "General".
C26_CategoryFirstMatchWins ==
  Applied("inferCategory") =>
    IF hIn.a.k # "arr" THEN hOut[1] = "General"
    ELSE IF hIn.a.items = <<>> THEN hOut[1] = "General"
    ELSE IF Mentions(hIn.a, {"ai", "ml", "genai", "llm"}) THEN hOut[1] = "AI/ML"
    ELSE IF Mentions(hIn.a, {"cloud", "aws", "azure", "gcp"}) THEN hOut[1] = "Cloud"
    ELSE IF Mentions(hIn.a, {"security", "cyber"}) THEN hOut[1] = "Security"
    ELSE IF Mentions(hIn.a, {"data"}) THEN hOut[1] = "Data"
    ELSE IsTitleOf(hOut[1], hIn.a.items[1])

\* a tag with an AI/ML term next to a cloud term
C26_Witness ==
  /\ Applied("inferCategory")
  /\ hIn.a = ArrayOf(<<"AWS", "genai">>)
  /\ hOut = <<"AI/ML">>

----------------------------------------------------------------------------
(* GeminiClient.getAccessToken under overlapping calls *)

\* the cache holds a token; the cache holds an expiry
TokenSet == accessToken # Null
ExpirySet == tokenExpiry # NoExpiry

\* the call of p ended by returning the token it found in the cache
ReturnedCached(p) == tpc[p] = "returned" /\ tCall[p].clientCalls = 0

\* C27: under every interleaving of overlapping getAccessToken calls, each
\* fetch succeeding or failing, the cache is never torn: accessToken is set
\* if and only if tokenExpiry is set, tokenExpiry never decreases, a call
\* returns the cached token only at an instant strictly before the cached
\* expiry, and after fetches by calls that both found the cache absent or
\* expired the cache holds the token and the expiry of the fetch that
\* completed last.
C27_CacheNeverTorn ==
  /\ [](TokenSet <=> ExpirySet)
  /\ [](\A p \in Callers : ReturnedCached(p) =>
          /\ tCall[p].result = tCall[p].sawToken /\ tCall[p].result # Null
          /\ tCall[p].startAt < tCall[p].sawExpiry.n)
  /\ [](tHist.lastOkAt >= 0 =>
          /\ accessToken = tHist.lastOkToken
          /\ tokenExpiry = ExpiryAt(tHist.lastOkAt + TokenTtl))
  /\ [][ExpirySet => (ExpirySet' /\ tokenExpiry'.n >= tokenExpiry.n)]_vars

\* two calls found the cache empty, both fetched, and the second to complete
\* left its token in the cache
C27_Witness ==
  /\ tpc[1] = "returned" /\ tpc[2] = "returned"
  /\ tCall[1].sawToken = Null /\ tCall[2].sawToken = Null
  /\ tCall[1].result = Str("ya29.a") /\ tCall[2].result = Str("ya29.b")
  /\ accessToken = Str("ya29.b")
  /\ now > 0

----------------------------------------------------------------------------
(* generateCareerInsights and its collaborators *)

\* the trend query of the insights operation in progress has settled
TrendsSettled == svcOp = "insights" /\ svcPc # "trends"

\* the trend query gave nothing to summarise: it failed or returned no rows
NoTrendData ==
  svcCalls[1].out = "failed" \/ (svcCalls[1].out = "ok" /\ svcLocals.trends = <<>>)

\* getArticleCount has been called; it is call number k of the request
CountCalledAt(k) ==
  k \in 1..Len(svcCalls) /\ svcCalls[k].fn = "getArticleCount"

\* C28: generateCareerInsights degrades only on its non-essential
\* collaborators: when the trend query fails or returns no rows the prompt's
\* trend summary is "No trend data available" and exactly one model call is
\* issued; when the article-count query fails, articleCount is 0 and the
\* operation succeeds; the article count is queried only after the model call
\* succeeded; a failed model call fails the operation with an error that
\* begins "Insight generation failed".
C28_DegradesOnlyOnNonEssentials ==
  TrendsSettled =>
    /\ NoTrendData =>
          /\ Len(ModelCalls) = 1
          /\ svcPrompts = <<svcLocals.prompt>>
          /\ svcLocals.prompt.slots[7] = MsgNoTrends
    /\ \A k \in 1..Len(svcCalls) :
          CountCalledAt(k) =>
            /\ k = 3 /\ svcCalls[2].svc = "gemini" /\ svcCalls[2].out = "ok"
            /\ svcCalls[3].out = "failed" =>
                  /\ svcPc = "done"
                  /\ svcOutcome.k = "value"
                  /\ svcOutcome.value.success
                  /\ svcOutcome.value.insights.metadata.articleCount = 0
                  /\ svcResp.status = 200
    /\ svcCalls[2].out = "failed" =>
          /\ svcPc = "done" /\ Len(svcCalls) = 2
          /\ svcOutcome.k = "error"
          /\ \E error \in ModelErrors :
                svcOutcome.error.message = MsgInsightsFailed \o error.message
          /\ svcResp = RespondError(500, svcOutcome.error.message)

\* the trend query failed, the model answered, the article count failed, and
\* the operation still returned insights
C28_Witness ==
  /\ svcOp = "insights" /\ svcPc = "done"
  /\ svcCalls[1].out = "failed"
  /\ svcCalls[2].out = "ok"
  /\ Len(svcCalls) = 3 /\ svcCalls[3].out = "failed"
  /\ svcOutcome.k = "value"
  /\ svcOutcome.value.insights.metadata.trendsAnalyzed = 0

----------------------------------------------------------------------------
(* getSystemStatus: three independent checks *)

\* the checks of getSystemStatus, in the order they run
Checks == <<"bigquery", "newsapi", "vertexai">>

\* the request in progress is a status request; its status object
StatusAsked == svcOp = "status"
SystemStatus == svcLocals.status

\* check k has settled, and it failed: its call was rejected or, for the
\* news API, the key was found invalid
CheckSettled(k) == k <= Len(svcCalls) /\ svcCalls[k].out # "pending"
CheckFailed(k) == CheckSettled(k) /\ svcCalls[k].out \in {"failed", "invalid"}

\* C29: getSystemStatus checks the warehouse, the news API and the
\* credential provider independently: a failed check never prevents the
\* remaining checks from running and is recorded as that component's status
\* "error"; overall is "healthy" if and only if no component has status
\* "error" and "degraded" otherwise; the route answers 200 if and only if
\* overall is "healthy" and 503 otherwise.
C29_ChecksAreIndependent ==
  StatusAsked =>
    /\ \A k \in 1..3 :
          CheckSettled(k) =>
            /\ SystemStatus.components[Checks[k]].status =
                 (IF CheckFailed(k) THEN "error" ELSE "healthy")
            /\ k < 3 => Len(svcCalls) > k
    /\ svcPc = "done" =>
          /\ Len(svcCalls) = 3 /\ \A k \in 1..3 : CheckSettled(k)
          /\ SystemStatus.overall =
               (IF \E k \in 1..3 : CheckFailed(k) THEN Str("degraded") ELSE Str("healthy"))
          /\ svcResp.body = SystemStatus
          /\ svcResp.status =
               (IF SystemStatus.overall = Str("healthy") THEN 200 ELSE 503)

\* the warehouse check failed, the two later checks ran and passed, and the
\* route answered 503 with overall "degraded"
C29_Witness ==
  /\ StatusAsked /\ svcPc = "done"
  /\ svcCalls[1].out = "failed" /\ svcCalls[2].out = "ok" /\ svcCalls[3].out = "ok"
  /\ SystemStatus.components["newsapi"].status = "healthy"
  /\ SystemStatus.components["vertexai"].status = "healthy"
  /\ SystemStatus.overall = Str("degraded")
  /\ svcResp.status = 503

====
